---------------------------- MODULE Spec2Model ----------------------------
(***************************************************************************)
(* Radiation pressure on a panelled body (Tudat).                          *)
(*                                                                         *)
(*   - the specular/diffuse/absorption reflection law and the mirror       *)
(*     reflection utility (src/src/astro/electromagnetism/reflectionLaw.cpp)*)
(*   - the cannonball and paneled radiation pressure target models, as     *)
(*     used by unitTestRadiationPressureTargetModel.cpp                    *)
(*   - the time-cached PanelledRadiationPressureAcceleration               *)
(*     (src/Tudat/Astrodynamics/ElectroMagnetism/panelledRadiationPressure.h)*)
(*                                                                         *)
(* Numbers.  A double is modelled by an exact rational <<n, d>> in lowest  *)
(* terms with d > 0, so that equality of values is equality of tuples.     *)
(* Rounding is not modelled.  The one non-finite double the code relies    *)
(* on, TUDAT_NAN, is the model value NaN, and the comparisons that may see *)
(* it follow IEEE-754 (every comparison with NaN is false).                *)
(* A vector (Eigen::Vector3d) is a triple of rationals.                    *)
(***************************************************************************)
EXTENDS Integers, Sequences, FiniteSets

VARIABLES
    \* ---- pure-function harness (reflection law, target models) ----
    fn,         \* name of the function applied last, "none" before any
    args,       \* the arguments record the functions are applied to
    ret,        \* value returned by the application named by fn
    \* ---- PanelledRadiationPressureAcceleration members ----
    currentTime_,
    currentNormalizedVectorToSource_,
    currentDistanceToSource_,
    currentRadiationPressure_,
    currentMass_,
    currentAcceleration_,
    currentPanelAccelerations_,
    \* ---- the collaborators' providers (boost::function objects) ----
    env,        \* what each provider returns when it is invoked now
    \* ---- instrumentation of the last operation ----
    lastCall,   \* the operation performed last, its time argument, and
                \* whether it was the first updateMembers after construction
    calls,      \* number of invocations of each provider during it
    trace       \* the collaborator calls that a specification follows one
                \* by one, in the order in which they were made

vars == << fn, args, ret,
           currentTime_, currentNormalizedVectorToSource_,
           currentDistanceToSource_, currentRadiationPressure_, currentMass_,
           currentAcceleration_, currentPanelAccelerations_,
           env, lastCall, calls, trace >>

fnVars == << fn, args, ret >>

accVars == << currentTime_, currentNormalizedVectorToSource_,
              currentDistanceToSource_, currentRadiationPressure_, currentMass_,
              currentAcceleration_, currentPanelAccelerations_,
              env, lastCall, calls, trace >>

-----------------------------------------------------------------------------
(***************************************************************************)
(* Exact arithmetic standing for double arithmetic.                        *)
(***************************************************************************)

Abs(x) == IF x < 0 THEN -x ELSE x

RECURSIVE GCD(_, _)
GCD(a, b) == IF b = 0 THEN a ELSE GCD(b, a % b)

\* n/d in lowest terms, denominator positive (d # 0)
Rat(n, d) ==
    LET g == GCD(Abs(n), Abs(d))
        s == IF d < 0 THEN -1 ELSE 1
    IN  << (s * n) \div g, (s * d) \div g >>

RInt(i) == << i, 1 >>

RZero == RInt(0)

ROne == RInt(1)

RAdd(p, q) == Rat(p[1] * q[2] + q[1] * p[2], p[2] * q[2])

RNeg(p) == << -p[1], p[2] >>

RSub(p, q) == RAdd(p, RNeg(q))

RMul(p, q) == Rat(p[1] * q[1], p[2] * q[2])

\* p / q for q # 0
RDiv(p, q) == Rat(p[1] * q[2], p[2] * q[1])

RLeq(p, q) == p[1] * q[2] <= q[1] * p[2]

RLt(p, q) == p[1] * q[2] < q[1] * p[2]

\* Eigen::Vector3d::Zero()
VZero == << RZero, RZero, RZero >>

\* Eigen: v + w
VAdd(v, w) == << RAdd(v[1], w[1]), RAdd(v[2], w[2]), RAdd(v[3], w[3]) >>

\* Eigen: -v
VNeg(v) == << RNeg(v[1]), RNeg(v[2]), RNeg(v[3]) >>

\* Eigen: v - w
VSub(v, w) == VAdd(v, VNeg(w))

\* Eigen: r * v
VScale(r, v) == << RMul(r, v[1]), RMul(r, v[2]), RMul(r, v[3]) >>

\* Eigen: v.dot( w )
VDot(v, w) == RAdd(RAdd(RMul(v[1], w[1]), RMul(v[2], w[2])), RMul(v[3], w[3]))

\* Eigen::Vector3d( x, y, z ) with integer components over a common denominator
Vec(x, y, z, d) == << Rat(x, d), Rat(y, d), Rat(z, d) >>

-----------------------------------------------------------------------------
(***************************************************************************)
(* reflectionLaw.cpp                                                       *)
(***************************************************************************)

\* computeMirrorlikeReflection with > for >= (a ray parallel to the surface
\* is passed through instead of culled)
computeMirrorlikeReflection_strictTest(vectorToMirror, surfaceNormal) ==
    LET vectorDotNormal == VDot(vectorToMirror, surfaceNormal)
    IN  IF RLt(RZero, vectorDotNormal)
        THEN VZero
        ELSE VSub(vectorToMirror,
                  VScale(RMul(RInt(2), vectorDotNormal), surfaceNormal))

\* computeMirrorlikeReflection without the backside test (every vector is
\* mirrored, which makes the function its own inverse)
computeMirrorlikeReflection_noCulling(vectorToMirror, surfaceNormal) ==
    VSub(vectorToMirror,
         VScale(RMul(RInt(2), VDot(vectorToMirror, surfaceNormal)), surfaceNormal))

computeMirrorlikeReflection(vectorToMirror, surfaceNormal) ==
    LET vectorDotNormal == VDot(vectorToMirror, surfaceNormal)
    IN  IF RLeq(RZero, vectorDotNormal)
        THEN \* Vector is incident on backside of surface
             VZero
        ELSE VSub(vectorToMirror,
                  VScale(RMul(RInt(2), vectorDotNormal), surfaceNormal))

\* evaluateReactionVector with < for <= in the backside test (grazing
\* incidence is not culled)
evaluateReactionVector_strictCulling(law, surfaceNormal, incomingDirection) ==
    LET cosBetweenNormalAndIncoming == VDot(surfaceNormal, VNeg(incomingDirection))
    IN  IF RLt(cosBetweenNormalAndIncoming, RZero)
        THEN VZero
        ELSE
          LET reactionFromIncidence ==
                  VScale(RAdd(law.absorptivity_, law.diffuseReflectivity),
                         incomingDirection)
              reactionFromReflection ==
                  VScale(RNeg(RAdd(RMul(Rat(2, 3), law.diffuseReflectivity),
                                   RMul(RMul(RInt(2), law.specularReflectivity_),
                                        cosBetweenNormalAndIncoming))),
                         surfaceNormal)
              reactionFromInstantaneousReradiation ==
                  IF law.withInstantaneousLambertianReradiation_
                  THEN VScale(RNeg(RMul(Rat(2, 3), law.absorptivity_)), surfaceNormal)
                  ELSE VZero
          IN  VAdd(VAdd(reactionFromIncidence, reactionFromReflection),
                   reactionFromInstantaneousReradiation)

\* evaluateReactionVector with the specular recoil counted once, not twice
evaluateReactionVector_specularOnce(law, surfaceNormal, incomingDirection) ==
    LET cosBetweenNormalAndIncoming == VDot(surfaceNormal, VNeg(incomingDirection))
    IN  IF RLeq(cosBetweenNormalAndIncoming, RZero)
        THEN VZero
        ELSE
          LET reactionFromIncidence ==
                  VScale(RAdd(law.absorptivity_, law.diffuseReflectivity),
                         incomingDirection)
              reactionFromReflection ==
                  VScale(RNeg(RAdd(RMul(Rat(2, 3), law.diffuseReflectivity),
                                   RMul(law.specularReflectivity_,
                                        cosBetweenNormalAndIncoming))),
                         surfaceNormal)
              reactionFromInstantaneousReradiation ==
                  IF law.withInstantaneousLambertianReradiation_
                  THEN VScale(RNeg(RMul(Rat(2, 3), law.absorptivity_)), surfaceNormal)
                  ELSE VZero
          IN  VAdd(VAdd(reactionFromIncidence, reactionFromReflection),
                   reactionFromInstantaneousReradiation)

\* evaluateReactionVector with the specular term not weighted by the cosine
evaluateReactionVector_noCosine(law, surfaceNormal, incomingDirection) ==
    LET cosBetweenNormalAndIncoming == VDot(surfaceNormal, VNeg(incomingDirection))
    IN  IF RLeq(cosBetweenNormalAndIncoming, RZero)
        THEN VZero
        ELSE
          LET reactionFromIncidence ==
                  VScale(RAdd(law.absorptivity_, law.diffuseReflectivity),
                         incomingDirection)
              reactionFromReflection ==
                  VScale(RNeg(RAdd(RMul(Rat(2, 3), law.diffuseReflectivity),
                                   RMul(RInt(2), law.specularReflectivity_))),
                         surfaceNormal)
              reactionFromInstantaneousReradiation ==
                  IF law.withInstantaneousLambertianReradiation_
                  THEN VScale(RNeg(RMul(Rat(2, 3), law.absorptivity_)), surfaceNormal)
                  ELSE VZero
          IN  VAdd(VAdd(reactionFromIncidence, reactionFromReflection),
                   reactionFromInstantaneousReradiation)

\* evaluateReactionVector that never adds the reaction from instantaneous
\* re-radiation
evaluateReactionVector_noReradiation(law, surfaceNormal, incomingDirection) ==
    LET cosBetweenNormalAndIncoming == VDot(surfaceNormal, VNeg(incomingDirection))
    IN  IF RLeq(cosBetweenNormalAndIncoming, RZero)
        THEN VZero
        ELSE VAdd(VScale(RAdd(law.absorptivity_, law.diffuseReflectivity),
                         incomingDirection),
                  VScale(RNeg(RAdd(RMul(Rat(2, 3), law.diffuseReflectivity),
                                   RMul(RMul(RInt(2), law.specularReflectivity_),
                                        cosBetweenNormalAndIncoming))),
                         surfaceNormal))

\* evaluateReactionVector with the reaction from reflection along the
\* surface normal instead of against it
evaluateReactionVector_recoilAlongNormal(law, surfaceNormal, incomingDirection) ==
    LET cosBetweenNormalAndIncoming == VDot(surfaceNormal, VNeg(incomingDirection))
    IN  IF RLeq(cosBetweenNormalAndIncoming, RZero)
        THEN VZero
        ELSE VAdd(VAdd(VScale(RAdd(law.absorptivity_, law.diffuseReflectivity),
                              incomingDirection),
                       VScale(RAdd(RMul(Rat(2, 3), law.diffuseReflectivity),
                                   RMul(RMul(RInt(2), law.specularReflectivity_),
                                        cosBetweenNormalAndIncoming)),
                              surfaceNormal)),
                  IF law.withInstantaneousLambertianReradiation_
                  THEN VScale(RNeg(RMul(Rat(2, 3), law.absorptivity_)), surfaceNormal)
                  ELSE VZero)

\* SpecularDiffuseMixReflectionLaw::evaluateReactionVector; law holds the
\* members specularReflectivity_, diffuseReflectivity, absorptivity_ and
\* withInstantaneousLambertianReradiation_
evaluateReactionVector(law, surfaceNormal, incomingDirection) ==
    LET cosBetweenNormalAndIncoming == VDot(surfaceNormal, VNeg(incomingDirection))
    IN  IF RLeq(cosBetweenNormalAndIncoming, RZero)
        THEN \* Radiation is incident on backside of surface
             VZero
        ELSE
          LET reactionFromIncidence ==
                  VScale(RAdd(law.absorptivity_, law.diffuseReflectivity),
                         incomingDirection)
              reactionFromReflection ==
                  VScale(RNeg(RAdd(RMul(Rat(2, 3), law.diffuseReflectivity),
                                   RMul(RMul(RInt(2), law.specularReflectivity_),
                                        cosBetweenNormalAndIncoming))),
                         surfaceNormal)
              reactionFromInstantaneousReradiation ==
                  IF law.withInstantaneousLambertianReradiation_
                  THEN VScale(RNeg(RMul(Rat(2, 3), law.absorptivity_)), surfaceNormal)
                  ELSE VZero
          IN  VAdd(VAdd(reactionFromIncidence, reactionFromReflection),
                   reactionFromInstantaneousReradiation)


\* An observer direction is given on two scales, coarse + fine * 1e-13: the
\* coarse part is a vector of the model's rationals, the fine part counts
\* units of 1e-13 (doubles resolve 1e-16 near 1, so such directions are
\* values the function can be called with).  The fine part decides a
\* comparison only where the coarse parts tie; every nonzero rational of the
\* inputs is larger than 1e-9 in magnitude.
Observer(coarse, fine) == [ coarse |-> coarse, fine |-> fine ]

\* NumTraits<double>::dummy_precision() = 1e-12, the default precision of
\* isApprox, in units of 1e-13
dummyPrecisionInFineUnits == 10

\* surfaceNormal.dot( observerDirection ) <= 0
CosObserverIsNonPositive(surfaceNormal, observerDirection) ==
    LET coarse == VDot(surfaceNormal, observerDirection.coarse)
        fine == VDot(surfaceNormal, observerDirection.fine)
    IN  RLt(coarse, RZero) \/ (coarse = RZero /\ RLeq(fine, RZero))

\* Eigen: observerDirection.isApprox( v ), that is
\*   ( observerDirection - v ).squaredNorm( ) <=
\*       prec * prec * min( observerDirection.squaredNorm( ), v.squaredNorm( ) )
\* With different coarse parts the left side is a rational of the inputs
\* and the right side is below 1e-22.  With equal coarse parts the left
\* side is |fine|^2 * 1e-26 and the minimum is |v|^2, lowered by the fine
\* part when that shortens the observer direction.
isApprox(observerDirection, v) ==
    LET fineSquaredNorm == VDot(observerDirection.fine, observerDirection.fine)
        bound == RMul(RInt(dummyPrecisionInFineUnits * dummyPrecisionInFineUnits),
                      VDot(v, v))
    IN  /\ observerDirection.coarse = v
        /\ \/ RLt(fineSquaredNorm, bound)
           \/ fineSquaredNorm = bound /\ RLeq(RZero, VDot(v, observerDirection.fine))

\* The value plain + overPi / PI of a double expression in which PI occurs
\* as a divisor only
Fraction(plain, overPi) == [ plain |-> plain, overPi |-> overPi ]

\* evaluateReflectedFraction with == for isApprox (specular reflection for
\* the exact mirror direction only)
evaluateReflectedFraction_exactMatch(law, surfaceNormal, incomingDirection, observerDirection) ==
    LET cosBetweenNormalAndIncoming == VDot(surfaceNormal, VNeg(incomingDirection))
    IN  IF \/ RLeq(cosBetweenNormalAndIncoming, RZero)
           \/ CosObserverIsNonPositive(surfaceNormal, observerDirection)
        THEN Fraction(RZero, RZero)
        ELSE
          LET mirrorOfIncomingDirection ==
                  computeMirrorlikeReflection(incomingDirection, surfaceNormal)
          IN  IF observerDirection = Observer(mirrorOfIncomingDirection, VZero)
              THEN Fraction(RDiv(law.specularReflectivity_, cosBetweenNormalAndIncoming),
                            law.diffuseReflectivity)
              ELSE Fraction(RZero, law.diffuseReflectivity)

\* evaluateReflectedFraction with < for <= in the test of the observer side
\* (an observer in the plane of the surface is not culled)
evaluateReflectedFraction_strictObserver(law, surfaceNormal, incomingDirection, observerDirection) ==
    LET cosBetweenNormalAndIncoming == VDot(surfaceNormal, VNeg(incomingDirection))
    IN  IF \/ RLeq(cosBetweenNormalAndIncoming, RZero)
           \/ /\ CosObserverIsNonPositive(surfaceNormal, observerDirection)
              /\ ~CosObserverIsNonPositive(surfaceNormal,
                        Observer(VNeg(observerDirection.coarse),
                                 VNeg(observerDirection.fine)))
        THEN Fraction(RZero, RZero)
        ELSE
          LET mirrorOfIncomingDirection ==
                  computeMirrorlikeReflection(incomingDirection, surfaceNormal)
          IN  IF isApprox(observerDirection, mirrorOfIncomingDirection)
              THEN Fraction(RDiv(law.specularReflectivity_, cosBetweenNormalAndIncoming),
                            law.diffuseReflectivity)
              ELSE Fraction(RZero, law.diffuseReflectivity)

\* evaluateReflectedFraction without the test of the incidence side (the
\* mirror direction is computed for any incidence)
evaluateReflectedFraction_noIncidenceTest(law, surfaceNormal, incomingDirection, observerDirection) ==
    LET cosBetweenNormalAndIncoming == VDot(surfaceNormal, VNeg(incomingDirection))
    IN  IF CosObserverIsNonPositive(surfaceNormal, observerDirection)
        THEN Fraction(RZero, RZero)
        ELSE
          LET mirrorOfIncomingDirection ==
                  computeMirrorlikeReflection(incomingDirection, surfaceNormal)
          IN  IF isApprox(observerDirection, mirrorOfIncomingDirection)
              THEN Fraction(RDiv(law.specularReflectivity_, cosBetweenNormalAndIncoming),
                            law.diffuseReflectivity)
              ELSE Fraction(RZero, law.diffuseReflectivity)

\* SpecularDiffuseMixReflectionLaw::evaluateReflectedFraction
evaluateReflectedFraction(law, surfaceNormal, incomingDirection, observerDirection) ==
    LET cosBetweenNormalAndIncoming == VDot(surfaceNormal, VNeg(incomingDirection))
    IN  IF \/ RLeq(cosBetweenNormalAndIncoming, RZero)
           \/ CosObserverIsNonPositive(surfaceNormal, observerDirection)
        THEN \* Radiation is incident on backside, or observer is on backside
             Fraction(RZero, RZero)
        ELSE
          LET \* diffuseReflectance = diffuseReflectivity / PI
              mirrorOfIncomingDirection ==
                  computeMirrorlikeReflection(incomingDirection, surfaceNormal)
          IN  IF isApprox(observerDirection, mirrorOfIncomingDirection)
              THEN \* diffuseReflectance + specularReflectance
                   Fraction(RDiv(law.specularReflectivity_, cosBetweenNormalAndIncoming),
                            law.diffuseReflectivity)
              ELSE Fraction(RZero, law.diffuseReflectivity)


\* SpecularDiffuseMixReflectionLaw( absorptivity, specularReflectivity,
\* diffuseReflectivity, withInstantaneousLambertianReradiation ): the stored
\* members.  Construction is rejected unless the three coefficients sum to 1
\* (LawIsValid).
SpecularDiffuseMixReflectionLaw(absorptivity, specularReflectivity, diffuseReflectivity, withReradiation) ==
    [ absorptivity_ |-> absorptivity,
      specularReflectivity_ |-> specularReflectivity,
      diffuseReflectivity |-> diffuseReflectivity,
      withInstantaneousLambertianReradiation_ |-> withReradiation ]

LawIsValid(law) ==
    /\ RAdd(RAdd(law.absorptivity_, law.specularReflectivity_),
            law.diffuseReflectivity) = ROne
    /\ RLeq(RZero, law.absorptivity_)
    /\ RLeq(RZero, law.specularReflectivity_)
    /\ RLeq(RZero, law.diffuseReflectivity)

\* a constructor that stores whatever coefficients it is given
ConstructSpecularDiffuseMixReflectionLaw_unchecked(absorptivity, specularReflectivity, diffuseReflectivity, withReradiation) ==
    [ rejected |-> FALSE,
      law |-> SpecularDiffuseMixReflectionLaw(absorptivity, specularReflectivity,
                                              diffuseReflectivity, withReradiation) ]

\* the outcome of an attempt to construct a law: the law, or the rejection
\* of coefficients that are not valid
ConstructSpecularDiffuseMixReflectionLaw(absorptivity, specularReflectivity, diffuseReflectivity, withReradiation) ==
    LET law == SpecularDiffuseMixReflectionLaw(absorptivity, specularReflectivity,
                                               diffuseReflectivity, withReradiation)
    IN  IF LawIsValid(law)
        THEN [ rejected |-> FALSE, law |-> law ]
        ELSE [ rejected |-> TRUE ]

\* reflectionLawFromSpecularAndDiffuseReflectivity( specular, diffuse ):
\* the rest is absorbed, no re-radiation
reflectionLawFromSpecularAndDiffuseReflectivity(specularReflectivity, diffuseReflectivity) ==
    SpecularDiffuseMixReflectionLaw(
        RSub(RSub(ROne, specularReflectivity), diffuseReflectivity),
        specularReflectivity, diffuseReflectivity, FALSE)

-----------------------------------------------------------------------------
(***************************************************************************)
(* Radiation pressure target models (radiationPressureTargetModel.h/.cpp,  *)
(* exercised by unitTestRadiationPressureTargetModel.cpp).                 *)
(***************************************************************************)

\* physical_constants::SPEED_OF_LIGHT [m/s]
speedOfLight == 299792458

\* radiation pressure = irradiance / speed of light
RadiationPressureOf(irradiance) == RDiv(irradiance, RInt(speedOfLight))

\* CannonballRadiationPressureTargetModel::evaluateRadiationPressureForce
\* with the coefficient left out of the product
CannonballEvaluateRadiationPressureForce_noCoefficient(area, coefficient, sourceIrradiance, sourceToTargetDirection) ==
    VScale(RMul(RadiationPressureOf(sourceIrradiance), area),
           sourceToTargetDirection)

\* CannonballRadiationPressureTargetModel::evaluateRadiationPressureForce
CannonballEvaluateRadiationPressureForce(area, coefficient, sourceIrradiance, sourceToTargetDirection) ==
    VScale(RMul(RMul(RadiationPressureOf(sourceIrradiance), area), coefficient),
           sourceToTargetDirection)

\* TargetPanel( area, surfaceNormal, reflectionLaw )
TargetPanel(area, surfaceNormal, reflectionLaw) ==
    [ area |-> area, surfaceNormal |-> surfaceNormal,
      reflectionLaw |-> reflectionLaw ]

\* force on one panel
PanelForce(panel, sourceIrradiance, sourceToTargetDirection) ==
    VScale(RMul(RadiationPressureOf(sourceIrradiance), panel.area),
           evaluateReactionVector(panel.reflectionLaw, panel.surfaceNormal,
                                  sourceToTargetDirection))

\* the loop over the panels: force accumulated over panels_[ 1 .. n ]
RECURSIVE PaneledForceUpTo(_, _, _, _)
PaneledForceUpTo(panels, n, sourceIrradiance, sourceToTargetDirection) ==
    IF n = 0
    THEN VZero
    ELSE VAdd(PaneledForceUpTo(panels, n - 1, sourceIrradiance,
                               sourceToTargetDirection),
              PanelForce(panels[n], sourceIrradiance, sourceToTargetDirection))

\* PaneledRadiationPressureTargetModel::evaluateRadiationPressureForce with
\* the loop stopping one panel early
PaneledEvaluateRadiationPressureForce_skipLast(panels, sourceIrradiance, sourceToTargetDirection) ==
    PaneledForceUpTo(panels, IF Len(panels) = 0 THEN 0 ELSE Len(panels) - 1,
                     sourceIrradiance, sourceToTargetDirection)

\* PaneledRadiationPressureTargetModel::evaluateRadiationPressureForce
PaneledEvaluateRadiationPressureForce(panels, sourceIrradiance, sourceToTargetDirection) ==
    PaneledForceUpTo(panels, Len(panels), sourceIrradiance,
                     sourceToTargetDirection)

-----------------------------------------------------------------------------
(***************************************************************************)
(* Inputs of the pure functions.                                           *)
(***************************************************************************)

\* reflectivities are drawn from the multiples of 1/ReflectivitySteps
ReflectivitySteps == 5

\* longest panel list of a paneled target model
MaxPanels == 2

\* every law the constructor accepts on the grid, with and without
\* instantaneous re-radiation
ReflectionLaws ==
    { law \in { SpecularDiffuseMixReflectionLaw(
                    Rat(a, ReflectivitySteps), Rat(s, ReflectivitySteps),
                    Rat(d, ReflectivitySteps), w) :
                a \in 0..ReflectivitySteps, s \in 0..ReflectivitySteps,
                d \in 0..ReflectivitySteps, w \in BOOLEAN } :
      LawIsValid(law) }

\* directions and normals: the axes, unit vectors off the axes, a vector
\* that is not of unit length and the zero vector
Vectors ==
    { Vec(1, 0, 0, 1), Vec(-1, 0, 0, 1), Vec(0, 0, 1, 1), Vec(0, 0, -1, 1),
      Vec(3, 0, 4, 5), Vec(-3, 0, -4, 5), Vec(0, 4, -3, 5), Vec(2, 2, -1, 3),
      Vec(1, 0, 1, 1), Vec(0, 0, 0, 1) }

LawArgs ==
    [ kind : {"law"}, law : ReflectionLaws, surfaceNormal : Vectors,
      incomingDirection : Vectors ]

\* laws of the unit tests: SpecularDiffuseMixReflectionLaw(0.2, 0.4, 0.4)
\* and reflectionLawFromSpecularAndDiffuseReflectivity(0.6, 0)
TargetLaws ==
    { SpecularDiffuseMixReflectionLaw(Rat(1, 5), Rat(2, 5), Rat(2, 5), FALSE),
      reflectionLawFromSpecularAndDiffuseReflectivity(Rat(3, 5), RZero) }

TargetDirections ==
    { Vec(0, 0, -1, 1), Vec(1, 0, 0, 1), Vec(-3, 0, -4, 5), Vec(2, 2, -1, 3) }

TargetNormals ==
    { Vec(0, 0, 1, 1), Vec(3, 0, 4, 5), Vec(-2, -2, 1, 3) }

TargetAreas == { ROne, Rat(5, 2) }

\* irradiance [W/m^2], in fractions of the speed of light so that the
\* radiation pressure is a small rational
Irradiances == { RZero, Rat(speedOfLight, 2), RInt(speedOfLight) }

Coefficients == { RZero, ROne, Rat(8, 5), Rat(6, 5) }

TargetPanels ==
    { TargetPanel(a, n, l) : a \in TargetAreas, n \in TargetNormals, l \in TargetLaws }

PanelLists == UNION { [ 1..n -> TargetPanels ] : n \in 0..MaxPanels }

CannonballArgs ==
    [ kind : {"cannonball"}, area : TargetAreas, coefficient : Coefficients,
      sourceIrradiance : Irradiances, sourceToTargetDirection : TargetDirections ]

PaneledArgs ==
    [ kind : {"paneled"}, panels : PanelLists,
      sourceIrradiance : Irradiances, sourceToTargetDirection : TargetDirections ]

\* inputs of evaluateReflectedFraction: the laws of the unit tests, a purely
\* diffuse and a purely specular one
FractionLaws ==
    TargetLaws \cup
    { SpecularDiffuseMixReflectionLaw(RZero, RZero, ROne, FALSE),
      SpecularDiffuseMixReflectionLaw(RZero, ROne, RZero, FALSE) }

FractionNormals ==
    { Vec(0, 0, 1, 1), Vec(3, 0, 4, 5), Vec(1, 0, 1, 1), Vec(0, 0, 0, 1) }

FractionIncomingDirections ==
    { Vec(0, 0, -1, 1), Vec(-3, 0, -4, 5), Vec(0, 4, -3, 5), Vec(1, 0, 0, 1),
      Vec(0, 0, 0, 1) }

\* coarse parts of the observer directions: mirror directions of the
\* incoming directions about the normals above, directions in the plane of
\* a surface, behind it, and the zero vector
ObserverCoarseParts ==
    { Vec(0, 0, 1, 1), Vec(-3, 0, 4, 5), Vec(3, 0, 4, 5), Vec(24, 0, 7, 25),
      Vec(2, 0, 1, 1), Vec(1, 0, 0, 1), Vec(0, 1, 0, 1), Vec(0, 0, -1, 1),
      Vec(0, 0, 0, 1) }

\* fine parts [1e-13]: none, within the precision of isApprox (1e-12
\* relative), at it, and beyond it
ObserverFineParts ==
    { Vec(0, 0, 0, 1), Vec(1, 0, 0, 1), Vec(0, 0, -1, 1), Vec(0, -6, 8, 1),
      Vec(0, 0, 11, 1) }

FractionArgs ==
    [ kind : {"fraction"}, law : FractionLaws, surfaceNormal : FractionNormals,
      incomingDirection : FractionIncomingDirections,
      observerDirection : { Observer(c, f) : c \in ObserverCoarseParts,
                                             f \in ObserverFineParts } ]

\* longest panel list of the lateral cancellation inputs
MaxLateralPanels == 4

\* unit normals tilted from the z axis towards +x, -x, +y and -y by the
\* same angle ((1,0,1), (-1,0,1), (0,1,1), (0,-1,1) of the unit test have
\* no rational normalisation)
TiltedNormals ==
    { Vec(3, 0, 4, 5), Vec(-3, 0, 4, 5), Vec(0, 3, 4, 5), Vec(0, -3, 4, 5) }

\* SpecularDiffuseMixReflectionLaw(0, 0, 1): purely diffuse
PurelyDiffuseLaw == SpecularDiffuseMixReflectionLaw(RZero, RZero, ROne, FALSE)

\* paneled models of tilted panels of one area sharing the purely diffuse
\* law, lit along -z; every list of normals, symmetric or not
LateralArgs ==
    { [ kind |-> "paneled",
        panels |-> [ i \in 1..n |-> TargetPanel(a, normals[i], PurelyDiffuseLaw) ],
        sourceIrradiance |-> irradiance,
        sourceToTargetDirection |-> Vec(0, 0, -1, 1) ] :
      n \in 1..MaxLateralPanels, a \in TargetAreas, irradiance \in Irradiances,
      normals \in [ 1..MaxLateralPanels -> TiltedNormals ] }

\* coefficients a caller may hand to the constructor of a law: the grid, a
\* negative value and a value above 1
AttemptedCoefficients ==
    { Rat(k, ReflectivitySteps) : k \in -1..(ReflectivitySteps + 1) }

ConstructArgs ==
    [ kind : {"construct"}, absorptivity : AttemptedCoefficients,
      specularReflectivity : AttemptedCoefficients,
      diffuseReflectivity : AttemptedCoefficients,
      withInstantaneousLambertianReradiation : BOOLEAN ]

-----------------------------------------------------------------------------
(***************************************************************************)
(* The reflection law and the target models are exercised on inputs drawn  *)
(* in the initial state (args.kind tells which functions they are inputs   *)
(* of); an action applies one function to them.  The acceleration model    *)
(* does not take part (AccIdle).                                           *)
(***************************************************************************)

\* TUDAT_NAN: the double that is not a number
NaN == << 0, 0 >>

IsNaN(x) == x[2] = 0

\* operator== of double: false as soon as one side is NaN
DoubleEquals(x, y) == ~IsNaN(x) /\ ~IsNaN(y) /\ x = y

\* largest time argument
MaxTime == 1

\* time arguments of updateMembers: the default TUDAT_NAN and the times
Times == { NaN } \cup { RInt(t) : t \in 0..MaxTime }

\* largest number of updateMembers calls made on a cannonball target model
MaxUpdates == 2

AccIdle ==
    /\ currentTime_ = "idle"
    /\ currentNormalizedVectorToSource_ = VZero
    /\ currentDistanceToSource_ = RZero
    /\ currentRadiationPressure_ = RZero
    /\ currentMass_ = RZero
    /\ currentAcceleration_ = VZero
    /\ currentPanelAccelerations_ = << >>
    /\ env = "idle"
    /\ lastCall = "idle"
    /\ calls = "idle"
    /\ trace = << >>

InitFn ==
    /\ fn = "none"
    /\ args \in LawArgs \cup CannonballArgs \cup PaneledArgs \cup FractionArgs
                \cup ConstructArgs \cup LateralArgs
    /\ ret = VZero
    /\ AccIdle

EvaluateReactionVector ==
    /\ args.kind = "law"
    /\ fn' = "evaluateReactionVector"
    /\ ret' = evaluateReactionVector(args.law, args.surfaceNormal,
                                     args.incomingDirection)
    /\ UNCHANGED << args, accVars >>

\* the vector to mirror is args.incomingDirection
ComputeMirrorlikeReflection ==
    /\ args.kind = "law"
    /\ fn' = "computeMirrorlikeReflection"
    /\ ret' = computeMirrorlikeReflection(args.incomingDirection, args.surfaceNormal)
    /\ UNCHANGED << args, accVars >>

CannonballEvaluate ==
    /\ args.kind = "cannonball"
    /\ fn' = "CannonballEvaluateRadiationPressureForce"
    /\ ret' = CannonballEvaluateRadiationPressureForce(
                  args.area, args.coefficient, args.sourceIrradiance,
                  args.sourceToTargetDirection)
    /\ UNCHANGED << args, accVars >>

PaneledEvaluate ==
    /\ args.kind = "paneled"
    /\ fn' = "PaneledEvaluateRadiationPressureForce"
    /\ ret' = PaneledEvaluateRadiationPressureForce(
                  args.panels, args.sourceIrradiance, args.sourceToTargetDirection)
    /\ UNCHANGED << args, accVars >>

EvaluateReflectedFraction ==
    /\ args.kind = "fraction"
    /\ fn' = "evaluateReflectedFraction"
    /\ ret' = evaluateReflectedFraction(args.law, args.surfaceNormal,
                                        args.incomingDirection, args.observerDirection)
    /\ UNCHANGED << args, accVars >>

ConstructReflectionLaw ==
    /\ args.kind = "construct"
    /\ fn' = "SpecularDiffuseMixReflectionLaw"
    /\ ret' = ConstructSpecularDiffuseMixReflectionLaw(
                  args.absorptivity, args.specularReflectivity,
                  args.diffuseReflectivity,
                  args.withInstantaneousLambertianReradiation)
    /\ UNCHANGED << args, accVars >>

\* an updateMembers that forgets the radiation pressure coefficient
CannonballUpdateMembers_clearsCoefficient(targetModel, currentTime) ==
    [ targetModel EXCEPT !.coefficient = RZero ]

\* CannonballRadiationPressureTargetModel::updateMembers: the model as it is
\* after the call; it has no time-dependent state and nothing is changed
CannonballUpdateMembers(targetModel, currentTime) == targetModel

\* one call of updateMembers on the cannonball model, with any time; trace
\* lists the times of the calls made so far
CannonballUpdate ==
    /\ args.kind = "cannonball"
    /\ Len(trace) < MaxUpdates
    /\ \E currentTime \in Times :
          /\ args' = CannonballUpdateMembers(args, currentTime)
          /\ trace' = Append(trace, currentTime)
    /\ fn' = "CannonballUpdateMembers"
    /\ ret' = VZero
    /\ UNCHANGED << currentTime_, currentNormalizedVectorToSource_,
                    currentDistanceToSource_, currentRadiationPressure_,
                    currentMass_, currentAcceleration_,
                    currentPanelAccelerations_, env, lastCall, calls >>

NextFn ==
    \/ CannonballUpdate
    \/ EvaluateReactionVector
    \/ ComputeMirrorlikeReflection
    \/ CannonballEvaluate
    \/ PaneledEvaluate
    \/ EvaluateReflectedFraction
    \/ ConstructReflectionLaw

SpecFn == InitFn /\ [][NextFn]_vars

-----------------------------------------------------------------------------
(***************************************************************************)
(* PanelledRadiationPressureAcceleration (panelledRadiationPressure.h).    *)
(*                                                                         *)
(* The providers handed to the constructor are boost::function objects of  *)
(* the environment; env holds what each returns when invoked now, and the  *)
(* environment may change any of them between two operations of the model. *)
(* calls counts the invocations made by the operation performed last.      *)
(***************************************************************************)

\* the square root of a perfect square
ISqrt(n) == CHOOSE r \in 0..n : r * r = n

\* Eigen: v.norm( ), for the vectors whose norm is rational
VNorm(v) == LET q == VDot(v, v) IN << ISqrt(q[1]), ISqrt(q[2]) >>

\* Eigen: v.normalize( ), for v # 0
VNormalized(v) == VScale(RDiv(ROne, VNorm(v)), v)

\* number of panels handed to the constructor
NumberOfPanels == 2

\* (source position, accelerated body position) differences have a rational
\* norm and the two bodies never coincide
SourcePositions == { Vec(0, 0, 0, 1), Vec(0, 0, 4, 1) }

AcceleratedBodyPositions == { Vec(3, 0, 0, 1), Vec(-3, 0, 0, 1) }

\* incident flux divided by the speed of light; 0 in full shadow
RadiationPressures == { RZero, RInt(2) }

Masses == { ROne, RInt(2) }

\* what the four providers of one panel return together: the first panel
\* is articulated, the others are fixed to the body
ArticulatedPanelStates ==
    { [ surfaceNormal |-> Vec(-1, 0, 0, 1), area |-> ROne,
        emmisivitty |-> Rat(1, 2), diffuseReflectionCoefficient |-> RZero ],
      [ surfaceNormal |-> Vec(-3, 0, 4, 5), area |-> RInt(2),
        emmisivitty |-> Rat(1, 5), diffuseReflectionCoefficient |-> Rat(2, 5) ] }

FixedPanelStates ==
    { [ surfaceNormal |-> Vec(3, 0, 4, 5), area |-> RInt(3),
        emmisivitty |-> Rat(1, 4), diffuseReflectionCoefficient |-> Rat(1, 2) ] }

PanelStates(i) == IF i = 1 THEN ArticulatedPanelStates ELSE FixedPanelStates

Environments ==
    [ sourcePosition : SourcePositions,
      acceleratedBodyPosition : AcceleratedBodyPositions,
      radiationPressure : RadiationPressures,
      mass : Masses,
      panels : { f \in [ 1..NumberOfPanels ->
                             ArticulatedPanelStates \cup FixedPanelStates ] :
                     \A i \in 1..NumberOfPanels : f[i] \in PanelStates(i) } ]

\* what an uninitialised double or Vector3d member may hold
UninitialisedDoubles == { RZero, RInt(7) }

UninitialisedVectors == { VZero, Vec(7, 7, 7, 1) }

NoCalls ==
    [ sourcePosition |-> 0, acceleratedBodyPosition |-> 0,
      radiationPressure |-> 0, mass |-> 0,
      panelSurfaceNormal |-> [ i \in 1..NumberOfPanels |-> 0 ],
      panelArea |-> [ i \in 1..NumberOfPanels |-> 0 ],
      panelEmmisivitty |-> [ i \in 1..NumberOfPanels |-> 0 ],
      panelDiffuseReflectionCoefficient |-> [ i \in 1..NumberOfPanels |-> 0 ] ]

\* computeSinglePanelNormalizedRadiationPressureForce: the force on one
\* panel per unit of radiation pressure.  The radiation travels against the
\* vector to the source; the emissivity is the specularly reflected
\* fraction, the rest that is not diffusely reflected is absorbed.
computeSinglePanelNormalizedRadiationPressureForce(normalizedVectorToSource, panelSurfaceNormal, panelArea, panelEmmisivitty, panelDiffuseReflectionCoefficient) ==
    VScale(panelArea,
           evaluateReactionVector(
               reflectionLawFromSpecularAndDiffuseReflectivity(
                   panelEmmisivitty, panelDiffuseReflectionCoefficient),
               panelSurfaceNormal, VNeg(normalizedVectorToSource)))

\* the guard of updateMembers with the times compared as bit patterns
\* (TUDAT_NAN equals itself)
TimeIsCurrent_bitwise(cachedTime, currentTime) == cachedTime = currentTime

\* the guard of updateMembers never taking the cached branch
TimeIsCurrent_never(cachedTime, currentTime) == FALSE

\* the guard of updateMembers taking every time up to the cached one as
\* current
TimeIsCurrent_notLater(cachedTime, currentTime) ==
    ~IsNaN(cachedTime) /\ ~IsNaN(currentTime) /\ RLeq(currentTime, cachedTime)

\* this->currentTime_ == currentTime
TimeIsCurrent(cachedTime, currentTime) == DoubleEquals(cachedTime, currentTime)

\* the acceleration due to panel i without the division by the mass
PanelAccelerationAt_noMass(i, normalizedVectorToSource, radiationPressure) ==
    VScale(radiationPressure,
           computeSinglePanelNormalizedRadiationPressureForce(
               normalizedVectorToSource,
               env.panels[i].surfaceNormal, env.panels[i].area,
               env.panels[i].emmisivitty,
               env.panels[i].diffuseReflectionCoefficient))

\* currentRadiationPressure_ / massFunction_( ) *
\*     computeSinglePanelNormalizedRadiationPressureForce( ... ) for panel i
PanelAccelerationAt(i, normalizedVectorToSource, radiationPressure) ==
    VScale(RDiv(radiationPressure, env.mass),
           computeSinglePanelNormalizedRadiationPressureForce(
               normalizedVectorToSource,
               env.panels[i].surfaceNormal, env.panels[i].area,
               env.panels[i].emmisivitty,
               env.panels[i].diffuseReflectionCoefficient))

\* the loop of updateMembers: currentAcceleration_ after the panels 1 .. n,
\* starting from zero
RECURSIVE AccelerationUpTo(_, _)
AccelerationUpTo(panelAccelerations, n) ==
    IF n = 0
    THEN VZero
    ELSE VAdd(AccelerationUpTo(panelAccelerations, n - 1), panelAccelerations[n])

\* invocations of the providers made by the recomputing branch
CallsOfRecompute(radiationPressure) ==
    LET perPanel == IF RLt(RZero, radiationPressure) THEN 1 ELSE 0
    IN  [ sourcePosition |-> 1, acceleratedBodyPosition |-> 1,
          radiationPressure |-> 1,
          mass |-> 1 + perPanel * NumberOfPanels,
          panelSurfaceNormal |-> [ i \in 1..NumberOfPanels |-> perPanel ],
          panelArea |-> [ i \in 1..NumberOfPanels |-> perPanel ],
          panelEmmisivitty |-> [ i \in 1..NumberOfPanels |-> perPanel ],
          panelDiffuseReflectionCoefficient |->
              [ i \in 1..NumberOfPanels |-> perPanel ] ]

\* AccelerationModel( ): the base class starts currentTime_ at TUDAT_NAN
InitialCurrentTime == NaN

\* the constructor: numberOfPanels_ set, currentPanelAccelerations_ resized,
\* currentTime_ set by the base class AccelerationModel; the other members
\* are left uninitialised
Construct ==
    /\ currentTime_ = InitialCurrentTime
    /\ \E d \in UninitialisedDoubles, v \in UninitialisedVectors :
          /\ currentDistanceToSource_ = d
          /\ currentRadiationPressure_ = d
          /\ currentMass_ = d
          /\ currentNormalizedVectorToSource_ = v
          /\ currentAcceleration_ = v
          /\ currentPanelAccelerations_ = [ i \in 1..NumberOfPanels |-> v ]
    /\ lastCall = [ op |-> "construct", currentTime |-> NaN, first |-> FALSE ]
    /\ calls = NoCalls
    /\ trace = << >>

FnIdle ==
    /\ fn = "idle"
    /\ args = "idle"
    /\ ret = "idle"

Init ==
    /\ env \in Environments
    /\ Construct
    /\ FnIdle

\* updateMembers entering the loop over the panels for every radiation
\* pressure other than zero
updateMembers_nonZeroPressure(currentTime) ==
    /\ lastCall' = [ op |-> "updateMembers", currentTime |-> currentTime,
                     first |-> lastCall.op = "construct" ]
    /\ IF ~TimeIsCurrent(currentTime_, currentTime)
       THEN LET vectorToSource ==
                    VSub(env.sourcePosition, env.acceleratedBodyPosition)
                radiationPressure == env.radiationPressure
                panelAccelerations ==
                    IF radiationPressure # RZero
                    THEN [ i \in 1..NumberOfPanels |->
                             PanelAccelerationAt(i, VNormalized(vectorToSource),
                                                 radiationPressure) ]
                    ELSE currentPanelAccelerations_
            IN  /\ currentDistanceToSource_' = VNorm(vectorToSource)
                /\ currentNormalizedVectorToSource_' = VNormalized(vectorToSource)
                /\ currentRadiationPressure_' = radiationPressure
                /\ currentMass_' = env.mass
                /\ currentPanelAccelerations_' = panelAccelerations
                /\ currentAcceleration_' =
                       IF radiationPressure # RZero
                       THEN AccelerationUpTo(panelAccelerations, NumberOfPanels)
                       ELSE VZero
                /\ currentTime_' = currentTime
                /\ calls' = CallsOfRecompute(radiationPressure)
       ELSE /\ UNCHANGED << currentTime_, currentNormalizedVectorToSource_,
                            currentDistanceToSource_, currentRadiationPressure_,
                            currentMass_, currentAcceleration_,
                            currentPanelAccelerations_ >>
            /\ calls' = NoCalls
    /\ UNCHANGED << env, fnVars >>

\* updateMembers( currentTime )
updateMembers(currentTime) ==
    /\ lastCall' = [ op |-> "updateMembers", currentTime |-> currentTime,
                     first |-> lastCall.op = "construct" ]
    /\ IF ~TimeIsCurrent(currentTime_, currentTime)
       THEN LET vectorToSource ==
                    VSub(env.sourcePosition, env.acceleratedBodyPosition)
                radiationPressure == env.radiationPressure
                panelAccelerations ==
                    IF RLt(RZero, radiationPressure)
                    THEN [ i \in 1..NumberOfPanels |->
                             PanelAccelerationAt(i, VNormalized(vectorToSource),
                                                 radiationPressure) ]
                    ELSE currentPanelAccelerations_
            IN  /\ currentDistanceToSource_' = VNorm(vectorToSource)
                /\ currentNormalizedVectorToSource_' = VNormalized(vectorToSource)
                /\ currentRadiationPressure_' = radiationPressure
                /\ currentMass_' = env.mass
                /\ currentPanelAccelerations_' = panelAccelerations
                /\ currentAcceleration_' =
                       IF RLt(RZero, radiationPressure)
                       THEN AccelerationUpTo(panelAccelerations, NumberOfPanels)
                       ELSE VZero
                /\ currentTime_' = currentTime
                /\ calls' = CallsOfRecompute(radiationPressure)
       ELSE /\ UNCHANGED << currentTime_, currentNormalizedVectorToSource_,
                            currentDistanceToSource_, currentRadiationPressure_,
                            currentMass_, currentAcceleration_,
                            currentPanelAccelerations_ >>
            /\ calls' = NoCalls
    /\ UNCHANGED << env, fnVars >>

UpdateMembers ==
    /\ \E currentTime \in Times : updateMembers(currentTime)
    /\ UNCHANGED trace

\* the environment moves on: one provider (the four providers of one panel
\* together) returns another value from now on
ProvidersChange ==
    /\ \/ \E p \in SourcePositions \ { env.sourcePosition } :
              env' = [ env EXCEPT !.sourcePosition = p ]
       \/ \E p \in AcceleratedBodyPositions \ { env.acceleratedBodyPosition } :
              env' = [ env EXCEPT !.acceleratedBodyPosition = p ]
       \/ \E r \in RadiationPressures \ { env.radiationPressure } :
              env' = [ env EXCEPT !.radiationPressure = r ]
       \/ \E m \in Masses \ { env.mass } :
              env' = [ env EXCEPT !.mass = m ]
       \/ \E i \in 1..NumberOfPanels :
              \E q \in PanelStates(i) \ { env.panels[i] } :
                  env' = [ env EXCEPT !.panels[i] = q ]
    /\ lastCall' = [ op |-> "providersChange", currentTime |-> NaN,
                     first |-> FALSE ]
    /\ calls' = NoCalls
    /\ UNCHANGED << currentTime_, currentNormalizedVectorToSource_,
                    currentDistanceToSource_, currentRadiationPressure_,
                    currentMass_, currentAcceleration_,
                    currentPanelAccelerations_, fnVars, trace >>

Next ==
    \/ UpdateMembers
    \/ ProvidersChange

Spec == Init /\ [][Next]_vars

-----------------------------------------------------------------------------
(***************************************************************************)
(* PanelledRadiationPressureAcceleration with its per-panel getters, for   *)
(* any providers the constructor accepts.  The constructor stores the      *)
(* providers as they are, so a panel's area provider may return a value    *)
(* that is not positive.  trace holds the surface normals that the last    *)
(* recomputing updateMembers obtained from the panels' providers.          *)
(***************************************************************************)

\* panel providers that return an area that is not positive
NonPositiveAreaPanelStates ==
    { [ surfaceNormal |-> Vec(-1, 0, 0, 1), area |-> RZero,
        emmisivitty |-> Rat(1, 2), diffuseReflectionCoefficient |-> RZero ],
      [ surfaceNormal |-> Vec(-1, 0, 0, 1), area |-> RInt(-1),
        emmisivitty |-> Rat(1, 2), diffuseReflectionCoefficient |-> RZero ] }

DiagPanelStates(i) ==
    PanelStates(i) \cup (IF i = 1 THEN NonPositiveAreaPanelStates ELSE { })

\* the source stays at the origin
DiagEnvironments ==
    [ sourcePosition : { Vec(0, 0, 0, 1) },
      acceleratedBodyPosition : AcceleratedBodyPositions,
      radiationPressure : RadiationPressures,
      mass : Masses,
      panels : { f \in [ 1..NumberOfPanels ->
                             UNION { DiagPanelStates(i) : i \in 1..NumberOfPanels } ] :
                     \A i \in 1..NumberOfPanels : f[i] \in DiagPanelStates(i) } ]

DiagInit ==
    /\ env \in DiagEnvironments
    /\ Construct
    /\ FnIdle

\* panelSurfaceNormalFunctions_[ i ]( ) of the loop of updateMembers, which
\* is entered for a positive radiation pressure only
NormalsOfRecompute(radiationPressure) ==
    IF RLt(RZero, radiationPressure)
    THEN [ i \in 1..NumberOfPanels |->
             [ call |-> "panelSurfaceNormalFunctions_", panel |-> i,
               returned |-> env.panels[i].surfaceNormal ] ]
    ELSE << >>

DiagUpdateMembers ==
    \E currentTime \in Times :
        /\ updateMembers(currentTime)
        /\ trace' = IF ~TimeIsCurrent(currentTime_, currentTime)
                    THEN NormalsOfRecompute(env.radiationPressure)
                    ELSE trace

\* getCurrentPanelSurfaceNormalInPropagationFrame( panelIndex ):
\* return panelSurfaceNormalFunctions_[ panelIndex ]( )
getCurrentPanelSurfaceNormalInPropagationFrame(panelIndex) ==
    /\ fn' = "getCurrentPanelSurfaceNormalInPropagationFrame"
    /\ args' = panelIndex
    /\ ret' = env.panels[panelIndex].surfaceNormal
    /\ calls' = [ NoCalls EXCEPT !.panelSurfaceNormal[panelIndex] = 1 ]
    /\ lastCall' = [ op |-> "getCurrentPanelSurfaceNormalInPropagationFrame",
                     currentTime |-> NaN, first |-> FALSE ]
    /\ UNCHANGED << currentTime_, currentNormalizedVectorToSource_,
                    currentDistanceToSource_, currentRadiationPressure_,
                    currentMass_, currentAcceleration_,
                    currentPanelAccelerations_, env, trace >>

GetCurrentPanelSurfaceNormalInPropagationFrame ==
    \E panelIndex \in 1..NumberOfPanels :
        getCurrentPanelSurfaceNormalInPropagationFrame(panelIndex)

\* getCurrentPanelAcceleration( panelIndex ):
\* return currentPanelAccelerations_[ panelIndex ]
getCurrentPanelAcceleration(panelIndex) == currentPanelAccelerations_[panelIndex]

\* getAcceleration( ): return currentAcceleration_
getAcceleration == currentAcceleration_

\* the environment moves on: the radiation pressure, the mass or the four
\* providers of one panel return another value from now on
DiagProvidersChange ==
    /\ \/ \E r \in RadiationPressures \ { env.radiationPressure } :
              env' = [ env EXCEPT !.radiationPressure = r ]
       \/ \E m \in Masses \ { env.mass } :
              env' = [ env EXCEPT !.mass = m ]
       \/ \E i \in 1..NumberOfPanels :
              \E q \in DiagPanelStates(i) \ { env.panels[i] } :
                  env' = [ env EXCEPT !.panels[i] = q ]
    /\ lastCall' = [ op |-> "providersChange", currentTime |-> NaN,
                     first |-> FALSE ]
    /\ calls' = NoCalls
    /\ UNCHANGED << currentTime_, currentNormalizedVectorToSource_,
                    currentDistanceToSource_, currentRadiationPressure_,
                    currentMass_, currentAcceleration_,
                    currentPanelAccelerations_, fnVars, trace >>

DiagNext ==
    \/ DiagUpdateMembers
    \/ GetCurrentPanelSurfaceNormalInPropagationFrame
    \/ DiagProvidersChange

SpecDiag == DiagInit /\ [][DiagNext]_vars

-----------------------------------------------------------------------------
(***************************************************************************)
(* The acceleration model that consumes a radiation pressure target model  *)
(* (radiationPressureAcceleration.h/.cpp): it holds providers of the       *)
(* source position, of the accelerated body's position, of the irradiance  *)
(* and of the mass, and one target model (args).  trace holds the calls    *)
(* made by the last update, in order.  The target models of the unit tests *)
(* keep no state of their own: their panels' normals are fixed.            *)
(***************************************************************************)

\* target models: cannonballs and paneled models
ConsumeTargets ==
    [ kind : {"cannonball"}, area : TargetAreas, coefficient : { ROne, Rat(8, 5) } ]
    \cup
    [ kind : {"paneled"},
      panels : { << TargetPanel(a, n, l) >> :
                     a \in TargetAreas, n \in { Vec(-1, 0, 0, 1), Vec(3, 0, 4, 5) },
                     l \in TargetLaws } ]

\* targetModel.evaluateRadiationPressureForce( sourceIrradiance,
\*                                             sourceToTargetDirection )
TargetEvaluateRadiationPressureForce(target, sourceIrradiance, sourceToTargetDirection) ==
    IF target.kind = "cannonball"
    THEN CannonballEvaluateRadiationPressureForce(
             target.area, target.coefficient, sourceIrradiance, sourceToTargetDirection)
    ELSE PaneledEvaluateRadiationPressureForce(
             target.panels, sourceIrradiance, sourceToTargetDirection)

\* one call of a collaborator; time is the argument of
\* targetModel.updateMembers and NaN for the calls without a time argument
Call(name, time) == [ call |-> name, time |-> time ]

\* the calls of a recomputing update with the target model evaluated before
\* it is updated
CallsOfConsumingUpdate_evaluateFirst(currentTime) ==
    << Call("sourcePositionFunction", NaN),
       Call("acceleratedBodyPositionFunction", NaN),
       Call("radiationPressureFunction", NaN),
       Call("massFunction", NaN),
       Call("targetModel.evaluateRadiationPressureForce", NaN),
       Call("targetModel.updateMembers", currentTime) >>

\* the calls of a recomputing update: the positions, the irradiance, the
\* mass, targetModel.updateMembers( currentTime ), then
\* targetModel.evaluateRadiationPressureForce( irradiance, direction )
CallsOfConsumingUpdate(currentTime) ==
    << Call("sourcePositionFunction", NaN),
       Call("acceleratedBodyPositionFunction", NaN),
       Call("radiationPressureFunction", NaN),
       Call("massFunction", NaN),
       Call("targetModel.updateMembers", currentTime),
       Call("targetModel.evaluateRadiationPressureForce", NaN) >>

\* the irradiance at the target [W/m^2]; env.radiationPressure holds it
\* divided by the speed of light
IrradianceNow == RMul(env.radiationPressure, RInt(speedOfLight))

\* RadiationPressureAcceleration::updateMembers( currentTime ): the cached
\* acceleration is kept when currentTime equals the cached time; otherwise
\* the force on the target model, which the radiation strikes travelling
\* from the source to the target, is divided by the mass
ConsumingUpdateMembers(currentTime) ==
    /\ lastCall' = [ op |-> "updateMembers", currentTime |-> currentTime,
                     first |-> lastCall.op = "construct" ]
    /\ IF ~TimeIsCurrent(currentTime_, currentTime)
       THEN LET targetToSource ==
                    VSub(env.sourcePosition, env.acceleratedBodyPosition)
                force ==
                    TargetEvaluateRadiationPressureForce(
                        args, IrradianceNow, VNeg(VNormalized(targetToSource)))
            IN  /\ currentAcceleration_' = VScale(RDiv(ROne, env.mass), force)
                /\ currentTime_' = currentTime
                /\ trace' = CallsOfConsumingUpdate(currentTime)
       ELSE /\ UNCHANGED << currentTime_, currentAcceleration_ >>
            /\ trace' = << >>
    /\ calls' = NoCalls
    /\ UNCHANGED << currentNormalizedVectorToSource_, currentDistanceToSource_,
                    currentRadiationPressure_, currentMass_,
                    currentPanelAccelerations_, env, fnVars >>

ConsumeUpdateMembers ==
    \E currentTime \in Times : ConsumingUpdateMembers(currentTime)

ConsumeInit ==
    /\ env \in Environments
    /\ args \in ConsumeTargets
    /\ fn = "idle"
    /\ ret = "idle"
    /\ currentTime_ = InitialCurrentTime
    /\ currentAcceleration_ = VZero
    /\ currentNormalizedVectorToSource_ = VZero
    /\ currentDistanceToSource_ = RZero
    /\ currentRadiationPressure_ = RZero
    /\ currentMass_ = RZero
    /\ currentPanelAccelerations_ = << >>
    /\ lastCall = [ op |-> "construct", currentTime |-> NaN, first |-> FALSE ]
    /\ calls = NoCalls
    /\ trace = << >>

ConsumeNext ==
    \/ ConsumeUpdateMembers
    \/ ProvidersChange

SpecConsume == ConsumeInit /\ [][ConsumeNext]_vars

-----------------------------------------------------------------------------
(***************************************************************************)
(* Properties of the reflection law and of the target models (SpecFn).     *)
(***************************************************************************)

\* cIn of the arguments: surfaceNormal . ( -incomingDirection )
ArgsCosIn == VDot(args.surfaceNormal, VNeg(args.incomingDirection))

\* sum of the vectors f[i] over the indices i in S, in no particular order
RECURSIVE VSum(_, _)
VSum(f, S) ==
    IF S = {}
    THEN VZero
    ELSE LET i == CHOOSE j \in S : TRUE
         IN  VAdd(f[i], VSum(f, S \ {i}))

\* a panel the radiation does not reach: normal . ( -direction ) <= 0
FacesAway(panel, direction) ==
    RLeq(VDot(panel.surfaceNormal, VNeg(direction)), RZero)

C6_ReactionVectorFormula ==
    (fn = "evaluateReactionVector" /\ RLt(RZero, ArgsCosIn)) =>
        \A k \in 1..3 :
            RMul(RInt(3), ret[k]) =
                RSub(RSub(RMul(RMul(RInt(3), RAdd(args.law.absorptivity_,
                                                  args.law.diffuseReflectivity)),
                               args.incomingDirection[k]),
                          RMul(RAdd(RMul(RInt(2), args.law.diffuseReflectivity),
                                    RMul(RMul(RInt(6), args.law.specularReflectivity_),
                                         ArgsCosIn)),
                               args.surfaceNormal[k])),
                     IF args.law.withInstantaneousLambertianReradiation_
                     THEN RMul(RMul(RInt(2), args.law.absorptivity_),
                               args.surfaceNormal[k])
                     ELSE RZero)

\* a lit surface off normal incidence, all three coefficients positive, with
\* re-radiation
C6_Witness ==
    /\ fn = "evaluateReactionVector"
    /\ RLt(RZero, ArgsCosIn)
    /\ ArgsCosIn # ROne
    /\ RLt(RZero, args.law.absorptivity_)
    /\ RLt(RZero, args.law.specularReflectivity_)
    /\ RLt(RZero, args.law.diffuseReflectivity)
    /\ args.law.withInstantaneousLambertianReradiation_
    /\ ret # VZero

\* C7: backside culling.  The reaction vector is exactly zero whenever
\* normal . ( -incoming ) <= 0, grazing incidence included, and a paneled
\* model all of whose panels face away from the source returns exactly the
\* zero force, whatever the irradiance and the laws.
C7_BacksideCulling ==
    /\ (fn = "evaluateReactionVector" /\ RLeq(ArgsCosIn, RZero)) => ret = VZero
    /\ (/\ fn = "PaneledEvaluateRadiationPressureForce"
        /\ \A i \in 1..Len(args.panels) :
               FacesAway(args.panels[i], args.sourceToTargetDirection))
           => ret = VZero

\* grazing incidence of a nonzero ray on a nonzero normal
C7_WitnessGrazing ==
    /\ fn = "evaluateReactionVector"
    /\ ArgsCosIn = RZero
    /\ args.surfaceNormal # VZero
    /\ args.incomingDirection # VZero
    /\ RLt(RZero, args.law.diffuseReflectivity)

\* two panels, one grazing and one turned away, under a positive irradiance
C7_Witness ==
    /\ fn = "PaneledEvaluateRadiationPressureForce"
    /\ Len(args.panels) = 2
    /\ VDot(args.panels[1].surfaceNormal, VNeg(args.sourceToTargetDirection)) = RZero
    /\ RLt(VDot(args.panels[2].surfaceNormal, VNeg(args.sourceToTargetDirection)),
           RZero)
    /\ args.sourceIrradiance # RZero

\* C8: the cannonball force is (irradiance / speedOfLight) * area *
\* coefficient * direction; it is parallel to the direction (zero cross
\* product) and exactly zero for the coefficient 0.
C8_CannonballForce ==
    fn = "CannonballEvaluateRadiationPressureForce" =>
        LET d == args.sourceToTargetDirection
        IN  /\ \A k \in 1..3 :
                   ret[k] = RMul(RDiv(args.sourceIrradiance, RInt(speedOfLight)),
                                 RMul(args.area, RMul(args.coefficient, d[k])))
            /\ RMul(ret[2], d[3]) = RMul(ret[3], d[2])
            /\ RMul(ret[3], d[1]) = RMul(ret[1], d[3])
            /\ RMul(ret[1], d[2]) = RMul(ret[2], d[1])
            /\ args.coefficient = RZero => ret = VZero

\* a nonzero force for a coefficient other than 0 and 1 and an area other
\* than 1, along a direction off the axes
C8_Witness ==
    /\ fn = "CannonballEvaluateRadiationPressureForce"
    /\ args.coefficient \notin { RZero, ROne }
    /\ args.area # ROne
    /\ args.sourceIrradiance # RZero
    /\ \A k \in 1..3 : args.sourceToTargetDirection[k] # RZero
    /\ ret # VZero

\* the case of the claim "coefficient 0": a positive irradiance and no force
C8_WitnessZeroCoefficient ==
    /\ fn = "CannonballEvaluateRadiationPressureForce"
    /\ args.coefficient = RZero
    /\ args.sourceIrradiance # RZero
    /\ ret = VZero

\* the one panel of the claim C9: turned against a unit direction of
\* incidence, no diffuse reflection, no re-radiation
IsEquivalentSinglePanel ==
    /\ args.kind = "paneled"
    /\ Len(args.panels) = 1
    /\ VDot(args.sourceToTargetDirection, args.sourceToTargetDirection) = ROne
    /\ args.panels[1].surfaceNormal = VNeg(args.sourceToTargetDirection)
    /\ args.panels[1].reflectionLaw.diffuseReflectivity = RZero
    /\ ~args.panels[1].reflectionLaw.withInstantaneousLambertianReradiation_

\* C9: a paneled model with one panel of area A turned against the unit
\* direction of incidence, with specular reflectivity s, no diffuse
\* reflection and no re-radiation, returns the force of the cannonball model
\* of area A and coefficient 1 + s.
C9_SinglePanelEqualsCannonball ==
    (fn = "PaneledEvaluateRadiationPressureForce" /\ IsEquivalentSinglePanel) =>
        ret = CannonballEvaluateRadiationPressureForce(
                  args.panels[1].area,
                  RAdd(ROne, args.panels[1].reflectionLaw.specularReflectivity_),
                  args.sourceIrradiance, args.sourceToTargetDirection)

\* the case of the unit test: s = 0.6, a direction off the axes
C9_Witness ==
    /\ fn = "PaneledEvaluateRadiationPressureForce"
    /\ IsEquivalentSinglePanel
    /\ args.panels[1].reflectionLaw.specularReflectivity_ = Rat(3, 5)
    /\ args.panels[1].area # ROne
    /\ \A k \in 1..3 : args.sourceToTargetDirection[k] # RZero
    /\ args.sourceIrradiance # RZero
    /\ ret # VZero

\* C10: computeMirrorlikeReflection(v, n) is the zero vector when
\* v . n >= 0 (v . n = 0 included) and v - 2 (v . n) n otherwise, and
\* applying it leaves its arguments as they were.
C10_MirrorlikeReflection ==
    fn = "computeMirrorlikeReflection" =>
        LET v == args.incomingDirection
            n == args.surfaceNormal
        IN  /\ RLeq(RZero, VDot(v, n)) => ret = VZero
            /\ RLt(VDot(v, n), RZero) =>
                   \A k \in 1..3 :
                       RAdd(ret[k], RMul(RMul(RInt(2), VDot(v, n)), n[k])) = v[k]

\* a ray that strikes the front face obliquely and is mirrored
C10_Witness ==
    /\ fn = "computeMirrorlikeReflection"
    /\ RLt(VDot(args.incomingDirection, args.surfaceNormal), RZero)
    /\ VDot(args.incomingDirection, args.surfaceNormal) # RInt(-1)
    /\ ret # VZero
    /\ ret # args.incomingDirection

\* a nonzero ray parallel to the surface, culled
C10_WitnessParallel ==
    /\ fn = "computeMirrorlikeReflection"
    /\ VDot(args.incomingDirection, args.surfaceNormal) = RZero
    /\ args.incomingDirection # VZero
    /\ args.surfaceNormal # VZero
    /\ ret = VZero

-----------------------------------------------------------------------------
(***************************************************************************)
(* Properties of PanelledRadiationPressureAcceleration (Spec).             *)
(***************************************************************************)

\* everything updateMembers caches, getAcceleration( ) included
cache == << currentTime_, currentNormalizedVectorToSource_,
            currentDistanceToSource_, currentRadiationPressure_, currentMass_,
            currentAcceleration_, currentPanelAccelerations_ >>

\* the operation performed last is an updateMembers that took the
\* recomputing branch
Recomputed == lastCall.op = "updateMembers" /\ calls.sourcePosition >= 1

\* the providers of source position, body position, radiation pressure and
\* mass were each sampled by the operation performed last
Sampled ==
    /\ calls.sourcePosition >= 1
    /\ calls.acceleratedBodyPosition >= 1
    /\ calls.radiationPressure >= 1
    /\ calls.mass >= 1

\* the unit vector from the accelerated body to the source, as the
\* providers give it now
VectorToSourceNow ==
    VNormalized(VSub(env.sourcePosition, env.acceleratedBodyPosition))

\* radiation pressure / mass * sum over the panels of the normalized force
\* of the panel, from the cached vector, pressure and mass and the panels'
\* current normals, areas and coefficients
AccelerationFromCurrentMembers ==
    VScale(RDiv(currentRadiationPressure_, currentMass_),
           VSum([ i \in 1..NumberOfPanels |->
                    computeSinglePanelNormalizedRadiationPressureForce(
                        currentNormalizedVectorToSource_,
                        env.panels[i].surfaceNormal, env.panels[i].area,
                        env.panels[i].emmisivitty,
                        env.panels[i].diffuseReflectionCoefficient) ],
                1..NumberOfPanels))

\* C1: an updateMembers( t ) with t not NaN and t equal to the cached time
\* leaves every cached member (the acceleration, the vector and distance to
\* the source, the radiation pressure, the mass, the panel accelerations,
\* the time) as it was and invokes no provider, whatever the providers
\* would return now.
C1_CachedCallChangesNothing ==
    [][ ( /\ lastCall'.op = "updateMembers"
          /\ ~IsNaN(lastCall'.currentTime)
          /\ lastCall'.currentTime = currentTime_ )
        => ( cache' = cache /\ calls' = NoCalls ) ]_vars

\* after a cached call: every sampled quantity differs from what its
\* provider returns now, and recomputing would give another acceleration
C1_Witness ==
    /\ lastCall.op = "updateMembers"
    /\ calls = NoCalls
    /\ ~IsNaN(currentTime_)
    /\ currentNormalizedVectorToSource_ # VectorToSourceNow
    /\ currentRadiationPressure_ # env.radiationPressure
    /\ currentMass_ # env.mass
    /\ currentAcceleration_ # VZero
    /\ currentAcceleration_ # AccelerationFromCurrentMembers

C3_SentinelAlwaysRecomputes ==
    /\ []( ( lastCall.op = "updateMembers" /\ IsNaN(lastCall.currentTime) )
           => ( Sampled /\ IsNaN(currentTime_)
                /\ currentRadiationPressure_ = env.radiationPressure
                /\ currentMass_ = env.mass ) )
    /\ [][ ( /\ lastCall'.op = "updateMembers"
             /\ IsNaN(lastCall'.currentTime) \/ IsNaN(currentTime_) )
           => ( /\ calls'.sourcePosition = 1
                /\ calls'.acceleratedBodyPosition = 1
                /\ calls'.radiationPressure = 1
                /\ calls'.mass >= 1
                /\ currentTime_' = lastCall'.currentTime
                /\ currentRadiationPressure_' = env.radiationPressure
                /\ currentMass_' = env.mass ) ]_vars

\* a call with TUDAT_NAN, not the first one, that recomputed a nonzero
\* acceleration
C3_Witness ==
    /\ lastCall.op = "updateMembers"
    /\ IsNaN(lastCall.currentTime)
    /\ ~lastCall.first
    /\ Sampled
    /\ currentAcceleration_ # VZero

\* C4: a freshly constructed model holds the sentinel as its cached time,
\* and the first updateMembers after construction recomputes for every
\* time argument (TUDAT_NAN included): it samples the providers, caches the
\* time and the acceleration computed from them.
C4_FirstCallRecomputes ==
    /\ lastCall.op = "construct" => IsNaN(currentTime_)
    /\ ( lastCall.op = "updateMembers" /\ lastCall.first ) =>
           /\ Sampled
           /\ currentTime_ = lastCall.currentTime
           /\ currentRadiationPressure_ = env.radiationPressure
           /\ currentMass_ = env.mass
           /\ currentNormalizedVectorToSource_ = VectorToSourceNow
           /\ currentAcceleration_ = AccelerationFromCurrentMembers

\* the first call, made with a time, on a model whose members held
\* something else than what was computed
C4_Witness ==
    /\ lastCall.op = "updateMembers"
    /\ lastCall.first
    /\ ~IsNaN(lastCall.currentTime)
    /\ Sampled
    /\ currentAcceleration_ \notin UninitialisedVectors

-----------------------------------------------------------------------------
(***************************************************************************)
(* Properties of evaluateReflectedFraction (specification SpecFn).         *)
(***************************************************************************)

FractionCosIn == VDot(args.surfaceNormal, VNeg(args.incomingDirection))

\* evaluateReflectedFraction was applied with cIn > 0 and cObs > 0
FrontFaceFractionEvaluated ==
    /\ args.kind = "fraction"
    /\ fn = "evaluateReflectedFraction"
    /\ RLt(RZero, FractionCosIn)
    /\ ~CosObserverIsNonPositive(args.surfaceNormal, args.observerDirection)

\* mirror direction of the incoming direction about the normal it strikes
\* from the front: v - 2 ( v . n ) n
MirrorDirection ==
    VSub(args.incomingDirection,
         VScale(RMul(RInt(2), VDot(args.incomingDirection, args.surfaceNormal)),
                args.surfaceNormal))

\* observerDirection is the mirror direction to within the relative
\* precision 1e-12: | observer - mirror |^2 <= 1e-24 min( |observer|^2, |mirror|^2 )
ObserverWithinPrecisionOfMirror ==
    LET fine == args.observerDirection.fine
        bound == RMul(RInt(dummyPrecisionInFineUnits * dummyPrecisionInFineUnits),
                      VDot(MirrorDirection, MirrorDirection))
    IN  /\ args.observerDirection.coarse = MirrorDirection
        /\ \/ RLt(VDot(fine, fine), bound)
           \/ VDot(fine, fine) = bound /\ RLeq(RZero, VDot(MirrorDirection, fine))

SpecularPlusDiffuse ==
    Fraction(RDiv(args.law.specularReflectivity_, FractionCosIn),
             args.law.diffuseReflectivity)

DiffuseAlone == Fraction(RZero, args.law.diffuseReflectivity)

\* C11, as stated: with cIn > 0 and cObs > 0 the result is
\* diffuseReflectivity / PI + specularReflectivity / cIn if observerDirection
\* equals the mirror direction exactly, and diffuseReflectivity / PI alone
\* for every other observerDirection, however close.
C11_SpecularOnlyOnExactMatch ==
    FrontFaceFractionEvaluated =>
        ret = IF args.observerDirection = Observer(MirrorDirection, VZero)
              THEN SpecularPlusDiffuse
              ELSE DiffuseAlone

\* C11, amended: with cIn > 0 and cObs > 0 the result is
\* diffuseReflectivity / PI + specularReflectivity / cIn if and only if
\* observerDirection is the mirror direction to within the relative
\* precision 1e-12 of isApprox, and diffuseReflectivity / PI alone
\* otherwise (a law without specular reflectivity gives the same value in
\* both cases).
C11_SpecularWithinPrecisionOfMirror ==
    FrontFaceFractionEvaluated =>
        ret = IF ObserverWithinPrecisionOfMirror
              THEN SpecularPlusDiffuse
              ELSE DiffuseAlone

\* an observer 1e-13 off the mirror direction receives the specular part
C11_Witness ==
    /\ FrontFaceFractionEvaluated
    /\ args.observerDirection.coarse = MirrorDirection
    /\ args.observerDirection.fine # VZero
    /\ RLt(RZero, args.law.specularReflectivity_)
    /\ ret = SpecularPlusDiffuse
    /\ ret # DiffuseAlone

\* an observer more than 1e-12 off the mirror direction does not
C11_WitnessBeyondPrecision ==
    /\ FrontFaceFractionEvaluated
    /\ args.observerDirection.coarse = MirrorDirection
    /\ ~ObserverWithinPrecisionOfMirror
    /\ RLt(RZero, args.law.specularReflectivity_)
    /\ ret = DiffuseAlone

\* cObs = surfaceNormal . observerDirection is exactly 0, on both scales
FractionCosObsIsZero ==
    /\ VDot(args.surfaceNormal, args.observerDirection.coarse) = RZero
    /\ VDot(args.surfaceNormal, args.observerDirection.fine) = RZero

\* C12: evaluateReflectedFraction returns exactly 0 whenever cIn <= 0 or
\* cObs <= 0 (either one at exactly 0 included), and its result is never
\* negative: neither the part over PI nor the rest is.
C12_ReflectedFractionCulledAndNonNegative ==
    (args.kind = "fraction" /\ fn = "evaluateReflectedFraction") =>
        /\ ( \/ RLeq(FractionCosIn, RZero)
             \/ CosObserverIsNonPositive(args.surfaceNormal, args.observerDirection) )
           => ret = Fraction(RZero, RZero)
        /\ RLeq(RZero, ret.plain)
        /\ RLeq(RZero, ret.overPi)

\* the observer exactly in the plane of a lit surface of a reflecting law
C12_Witness ==
    /\ args.kind = "fraction"
    /\ fn = "evaluateReflectedFraction"
    /\ RLt(RZero, FractionCosIn)
    /\ FractionCosObsIsZero
    /\ args.observerDirection.coarse # VZero
    /\ RLt(RZero, args.law.diffuseReflectivity)
    /\ ret = Fraction(RZero, RZero)

\* incidence exactly at grazing, observer in front of the surface
C12_WitnessGrazingIncidence ==
    /\ args.kind = "fraction"
    /\ fn = "evaluateReflectedFraction"
    /\ FractionCosIn = RZero
    /\ args.incomingDirection # VZero
    /\ ~CosObserverIsNonPositive(args.surfaceNormal, args.observerDirection)
    /\ RLt(RZero, args.law.diffuseReflectivity)
    /\ ret = Fraction(RZero, RZero)

-----------------------------------------------------------------------------
(***************************************************************************)
(* Properties of the per-panel getters and of the panels' providers        *)
(* (specification SpecDiag).                                               *)
(***************************************************************************)

\* the surface normal getter was called last, in a time step whose
\* recomputing updateMembers evaluated the panels' normals
NormalReadAfterRecompute ==
    /\ lastCall.op = "getCurrentPanelSurfaceNormalInPropagationFrame"
    /\ trace # << >>

\* C14, as stated: a read of a panel's surface normal through its getter
\* within a time step yields the normal that the last recomputing
\* updateMembers obtained from the panel's provider, so that a provider that
\* changes after the update is not observed before the next recomputing
\* update.
C14_ProviderChangeNotObservedWithinTimeStep ==
    NormalReadAfterRecompute => ret = trace[args].returned

\* sum of getCurrentPanelAcceleration( i ) over all panels
SumOfPanelAccelerations ==
    VSum([ i \in 1..NumberOfPanels |-> getCurrentPanelAcceleration(i) ],
         1..NumberOfPanels)

\* C15, as stated: after updateMembers, getCurrentPanelAcceleration(i) is
\* for every panel i the acceleration due to panel i as calculated by the
\* last updateMembers that recomputed (from the vector to the source, the
\* radiation pressure and the mass it sampled), and the sum of
\* getCurrentPanelAcceleration(i) over all panels equals getAcceleration().
C15_PanelAccelerationsAreOfLastRecompute ==
    /\ lastCall.op = "updateMembers" => SumOfPanelAccelerations = getAcceleration
    /\ Recomputed =>
           \A i \in 1..NumberOfPanels :
               getCurrentPanelAcceleration(i) =
                   PanelAccelerationAt(i, currentNormalizedVectorToSource_,
                                       currentRadiationPressure_)

\* C17, as stated: no model is constructed with a panel whose area is not
\* positive, and no updateMembers evaluates the force on a panel with an
\* area that is not positive.
C17_NoPanelAreaIsNonPositive ==
    /\ lastCall.op = "construct" =>
           \A i \in 1..NumberOfPanels : RLt(RZero, env.panels[i].area)
    /\ Recomputed =>
           \A i \in 1..NumberOfPanels :
               calls.panelArea[i] >= 1 => RLt(RZero, env.panels[i].area)

-----------------------------------------------------------------------------
(***************************************************************************)
(* Properties of the acceleration model that consumes a target model       *)
(* (specification SpecConsume).                                            *)
(***************************************************************************)

\* positions in the sequence of calls tr at which name was called
PositionsOf(tr, name) == { k \in 1..Len(tr) : tr[k].call = name }

\* in tr, targetModel.updateMembers is called once, with the time t, before
\* the one call of targetModel.evaluateRadiationPressureForce and after the
\* irradiance and the mass have been obtained
TargetUpdatedThenEvaluated(tr, t) ==
    /\ Cardinality(PositionsOf(tr, "targetModel.updateMembers")) = 1
    /\ Cardinality(PositionsOf(tr, "targetModel.evaluateRadiationPressureForce")) = 1
    /\ PositionsOf(tr, "radiationPressureFunction") # { }
    /\ PositionsOf(tr, "massFunction") # { }
    /\ \A u \in PositionsOf(tr, "targetModel.updateMembers") :
          /\ tr[u].time = t
          /\ \A e \in PositionsOf(tr, "targetModel.evaluateRadiationPressureForce") :
                u < e
          /\ \A k \in PositionsOf(tr, "radiationPressureFunction")
                      \cup PositionsOf(tr, "massFunction") : k < u

\* C13: an update of the acceleration model that recomputes calls
\* targetModel.updateMembers(currentTime) before
\* targetModel.evaluateRadiationPressureForce, with the currentTime it was
\* asked for, after the irradiance and the mass have been obtained; an
\* update that returns the cached acceleration calls neither.
C13_TargetModelUpdatedBeforeEvaluated ==
    [][ lastCall'.op = "updateMembers" =>
            IF DoubleEquals(currentTime_, lastCall'.currentTime)
            THEN /\ PositionsOf(trace', "targetModel.updateMembers") = { }
                 /\ PositionsOf(trace', "targetModel.evaluateRadiationPressureForce") = { }
            ELSE TargetUpdatedThenEvaluated(trace', lastCall'.currentTime) ]_vars

\* a recomputing update at a time that is not the sentinel, giving a
\* nonzero acceleration
C13_Witness ==
    /\ args.kind \in {"cannonball", "paneled"}
    /\ lastCall.op = "updateMembers"
    /\ ~IsNaN(lastCall.currentTime)
    /\ currentTime_ = lastCall.currentTime
    /\ Len(trace) > 0
    /\ currentAcceleration_ # VZero

\* an update that returned the cached acceleration
C13_WitnessCached ==
    /\ args.kind \in {"cannonball", "paneled"}
    /\ lastCall.op = "updateMembers"
    /\ currentTime_ = lastCall.currentTime
    /\ Len(trace) = 0

-----------------------------------------------------------------------------
(***************************************************************************)
(* Properties of the reflection laws as objects (specification SpecFn).    *)
(***************************************************************************)

\* specular + diffuse + absorptivity = 1, each of them in [0, 1]
ComponentsSumToOneInUnitInterval(law) ==
    /\ RAdd(RAdd(law.specularReflectivity_, law.diffuseReflectivity),
            law.absorptivity_) = ROne
    /\ \A c \in { law.specularReflectivity_, law.diffuseReflectivity,
                  law.absorptivity_ } : RLeq(RZero, c) /\ RLeq(c, ROne)

\* the reflection laws that exist in a state: the law under evaluation, the
\* laws of the panels of a paneled model, the law just constructed
ExistingLaws ==
    (IF args.kind \in {"law", "fraction"} THEN { args.law } ELSE { })
    \cup (IF args.kind = "paneled"
          THEN { args.panels[i].reflectionLaw : i \in 1..Len(args.panels) }
          ELSE { })
    \cup (IF fn = "SpecularDiffuseMixReflectionLaw" /\ ~ret.rejected
          THEN { ret.law }
          ELSE { })

AttemptedSum ==
    RAdd(RAdd(args.specularReflectivity, args.diffuseReflectivity), args.absorptivity)

\* C16: every reflection law that exists has components in [0, 1] that sum
\* to 1; an attempt to construct a law from components that do not sum to 1
\* is rejected; and no operation (evaluateReflectedFraction,
\* evaluateReactionVector, the force on panels that use the law) changes
\* the components of a law.
C16_ReflectionLawComponentsInvariant ==
    /\ [](\A law \in ExistingLaws : ComponentsSumToOneInUnitInterval(law))
    /\ []((fn = "SpecularDiffuseMixReflectionLaw" /\ AttemptedSum # ROne)
             => ret.rejected)
    /\ [][args' = args]_vars

\* a law was constructed from valid components
C16_Witness ==
    /\ fn = "SpecularDiffuseMixReflectionLaw"
    /\ ~ret.rejected
    /\ RLt(RZero, ret.law.specularReflectivity_)
    /\ RLt(RZero, ret.law.diffuseReflectivity)
    /\ RLt(RZero, ret.law.absorptivity_)

\* components that do not sum to 1 were rejected
C16_WitnessRejected ==
    /\ fn = "SpecularDiffuseMixReflectionLaw"
    /\ AttemptedSum # ROne
    /\ \A c \in { args.specularReflectivity, args.diffuseReflectivity,
                  args.absorptivity } : RLeq(RZero, c) /\ RLeq(c, ROne)
    /\ ret.rejected

\* a law shared by two panels was used in the evaluation of their force
C16_WitnessSharedLaw ==
    /\ fn = "PaneledEvaluateRadiationPressureForce"
    /\ Len(args.panels) = 2
    /\ args.panels[1].reflectionLaw = args.panels[2].reflectionLaw
    /\ ret # VZero

-----------------------------------------------------------------------------
(***************************************************************************)
(* Evaluation cannot fail (specification SpecFn).  The functions of        *)
(* reflectionLaw.cpp contain no throw; the one operation in them that is   *)
(* not defined for all numbers is the division by                          *)
(* cosBetweenNormalAndIncoming, which yields a zero denominator here when  *)
(* the divisor is zero.  Overflow of the double range is not modelled.     *)
(***************************************************************************)

\* a double that is a number: not the outcome of a division by zero
IsFinite(x) == x[2] > 0

IsFiniteVector(v) == \A k \in 1..3 : IsFinite(v[k])

\* the arguments are degenerate for the function applied: incidence at or
\* past grazing (zero vectors included), for the reflected fraction also
\* observation at or past grazing
DegenerateGeometry ==
    \/ /\ fn \in {"evaluateReactionVector", "computeMirrorlikeReflection"}
       /\ RLeq(ArgsCosIn, RZero)
    \/ /\ fn = "evaluateReflectedFraction"
       /\ \/ RLeq(FractionCosIn, RZero)
          \/ CosObserverIsNonPositive(args.surfaceNormal, args.observerDirection)

\* C18: for every surfaceNormal, incomingDirection and observerDirection,
\* zero vectors and grazing included, evaluateReactionVector,
\* evaluateReflectedFraction and computeMirrorlikeReflection return a value
\* that is a number (no division by zero takes place), and degenerate
\* geometry yields the zero contribution.
C18_EvaluationReturnsAValue ==
    /\ fn \in {"evaluateReactionVector", "computeMirrorlikeReflection"} =>
           /\ IsFiniteVector(ret)
           /\ DegenerateGeometry => ret = VZero
    /\ fn = "evaluateReflectedFraction" =>
           /\ IsFinite(ret.plain) /\ IsFinite(ret.overPi)
           /\ DegenerateGeometry => ret = Fraction(RZero, RZero)

\* the zero vector as surface normal of the reflected fraction
C18_Witness ==
    /\ fn = "evaluateReflectedFraction"
    /\ args.surfaceNormal = VZero
    /\ args.incomingDirection # VZero
    /\ args.observerDirection.coarse # VZero
    /\ ret = Fraction(RZero, RZero)

\* the zero vector as incoming direction of the reaction vector
C18_WitnessZeroIncoming ==
    /\ fn = "evaluateReactionVector"
    /\ args.incomingDirection = VZero
    /\ args.surfaceNormal # VZero
    /\ ret = VZero

\* grazing incidence in the mirror reflection
C18_WitnessGrazingMirror ==
    /\ fn = "computeMirrorlikeReflection"
    /\ ArgsCosIn = RZero
    /\ args.incomingDirection # VZero
    /\ args.surfaceNormal # VZero
    /\ ret = VZero

-----------------------------------------------------------------------------
(***************************************************************************)
(* Algebraic properties of the paneled force (specification SpecFn).       *)
(***************************************************************************)

\* the part of v perpendicular to the unit vector axis
LateralPart(v, axis) == VSub(v, VScale(VDot(v, axis), axis))

\* the panels have one positive area, share one purely diffuse law, face the
\* source, and their normals' parts lateral to the incidence axis cancel
PanelsSymmetricAboutIncidenceAxis ==
    /\ Len(args.panels) >= 1
    /\ \A i \in 1..Len(args.panels) :
          /\ args.panels[i].area = args.panels[1].area
          /\ RLt(RZero, args.panels[i].area)
          /\ args.panels[i].reflectionLaw = args.panels[1].reflectionLaw
          /\ args.panels[i].reflectionLaw.diffuseReflectivity = ROne
          /\ args.panels[i].reflectionLaw.specularReflectivity_ = RZero
          /\ args.panels[i].reflectionLaw.absorptivity_ = RZero
          /\ ~FacesAway(args.panels[i], args.sourceToTargetDirection)
    /\ VSum([ i \in 1..Len(args.panels) |->
                LateralPart(args.panels[i].surfaceNormal,
                            args.sourceToTargetDirection) ],
            1..Len(args.panels)) = VZero

\* C19: lateral cancellation.  For panels of equal area sharing a purely
\* diffuse law, with front-facing normals symmetric about the incidence
\* axis, under a positive irradiance, the force has no component
\* perpendicular to the incidence axis and a nonzero component along it,
\* in the direction in which the radiation travels.
C19_LateralCancellation ==
    ( /\ args.kind = "paneled"
      /\ fn = "PaneledEvaluateRadiationPressureForce"
      /\ RLt(RZero, args.sourceIrradiance)
      /\ PanelsSymmetricAboutIncidenceAxis ) =>
        /\ LateralPart(ret, args.sourceToTargetDirection) = VZero
        /\ RLt(RZero, VDot(ret, args.sourceToTargetDirection))

\* the four panels of the unit test, tilted towards +x, -x, +y and -y
C19_Witness ==
    /\ args.kind = "paneled"
    /\ fn = "PaneledEvaluateRadiationPressureForce"
    /\ RLt(RZero, args.sourceIrradiance)
    /\ PanelsSymmetricAboutIncidenceAxis
    /\ Len(args.panels) = 4
    /\ { args.panels[i].surfaceNormal : i \in 1..4 } = TiltedNormals
    /\ ret[1] = RZero /\ ret[2] = RZero /\ RLt(ret[3], RZero)

\* panels that are not placed symmetrically leave a lateral force
C19_WitnessAsymmetric ==
    /\ args.kind = "paneled"
    /\ fn = "PaneledEvaluateRadiationPressureForce"
    /\ Len(args.panels) = 3
    /\ ~PanelsSymmetricAboutIncidenceAxis
    /\ LateralPart(ret, args.sourceToTargetDirection) # VZero

\* the permutations of 1 .. n that exchange two neighbouring positions;
\* they generate all permutations
Exchanges(n) ==
    { [ k \in 1..n |-> IF k = i THEN i + 1 ELSE IF k = i + 1 THEN i ELSE k ] :
      i \in 1..(n - 1) }

\* the panel list reordered by the permutation p
Reordered(panels, p) == [ i \in 1..Len(panels) |-> panels[p[i]] ]

\* C20: the force on a paneled model does not depend on the order of its
\* panels: exchanging any two neighbouring panels of the list gives the
\* force of the list itself for the same irradiance and direction.  The lists of the
\* inputs are closed under reordering, so this holds along every chain of
\* exchanges, that is for every permutation of every list.
C20_ForceIndependentOfPanelOrder ==
    (args.kind = "paneled" /\ fn = "PaneledEvaluateRadiationPressureForce") =>
        \A p \in Exchanges(Len(args.panels)) :
            PaneledEvaluateRadiationPressureForce(
                Reordered(args.panels, p), args.sourceIrradiance,
                args.sourceToTargetDirection) = ret

\* two different panels, each contributing its own nonzero force
C20_Witness ==
    /\ args.kind = "paneled"
    /\ fn = "PaneledEvaluateRadiationPressureForce"
    /\ Len(args.panels) = 2
    /\ args.panels[1] # args.panels[2]
    /\ PanelForce(args.panels[1], args.sourceIrradiance,
                  args.sourceToTargetDirection) # VZero
    /\ PanelForce(args.panels[2], args.sourceIrradiance,
                  args.sourceToTargetDirection) # VZero
    /\ PanelForce(args.panels[1], args.sourceIrradiance,
                  args.sourceToTargetDirection)
         # PanelForce(args.panels[2], args.sourceIrradiance,
                      args.sourceToTargetDirection)
    /\ ret # VZero

-----------------------------------------------------------------------------
(***************************************************************************)
(* Further properties of the reflection law (specification SpecFn).        *)
(***************************************************************************)

IsUnit(v) == VDot(v, v) = ROne

\* C28: with instantaneous Lambertian re-radiation, the reaction vector of
\* the law (absorptivity a, specular s, diffuse d) is, for every normal and
\* incoming direction, the reaction vector of the law (0, s, d + a) without
\* re-radiation.
C28_ReradiationIsDiffuseReflectionOfAbsorbed ==
    ( /\ args.kind = "law"
      /\ fn = "evaluateReactionVector"
      /\ args.law.withInstantaneousLambertianReradiation_ ) =>
        ret = evaluateReactionVector(
                  SpecularDiffuseMixReflectionLaw(
                      RZero, args.law.specularReflectivity_,
                      RAdd(args.law.diffuseReflectivity, args.law.absorptivity_),
                      FALSE),
                  args.surfaceNormal, args.incomingDirection)

\* an absorbing law with re-radiation on a lit surface
C28_Witness ==
    /\ args.kind = "law"
    /\ fn = "evaluateReactionVector"
    /\ args.law.withInstantaneousLambertianReradiation_
    /\ RLt(RZero, args.law.absorptivity_)
    /\ RLt(RZero, args.law.specularReflectivity_)
    /\ RLt(RZero, ArgsCosIn)
    /\ ret # VZero

\* C29: for a unit normal and a unit incoming direction with cIn > 0, the
\* reaction vector r has r . incomingDirection >= 0 and
\* r . surfaceNormal < 0, with or without re-radiation; and the force on a
\* paneled model has a non-negative component along the direction in which
\* the radiation travels.
C29_RadiationPushes ==
    /\ ( /\ args.kind = "law"
         /\ fn = "evaluateReactionVector"
         /\ IsUnit(args.surfaceNormal) /\ IsUnit(args.incomingDirection)
         /\ RLt(RZero, ArgsCosIn) ) =>
           /\ RLeq(RZero, VDot(ret, args.incomingDirection))
           /\ RLt(VDot(ret, args.surfaceNormal), RZero)
    /\ ( /\ args.kind = "paneled"
         /\ fn = "PaneledEvaluateRadiationPressureForce" ) =>
           RLeq(RZero, VDot(ret, args.sourceToTargetDirection))

\* oblique incidence on a mostly specular law with re-radiation
C29_Witness ==
    /\ args.kind = "law"
    /\ fn = "evaluateReactionVector"
    /\ IsUnit(args.surfaceNormal) /\ IsUnit(args.incomingDirection)
    /\ RLt(RZero, ArgsCosIn) /\ RLt(ArgsCosIn, ROne)
    /\ RLt(Rat(1, 2), args.law.specularReflectivity_)
    /\ RLt(RZero, VDot(ret, args.incomingDirection))
    /\ RLt(VDot(ret, args.surfaceNormal), RZero)

\* a paneled model with two lit panels pushed along the direction of travel
C29_WitnessPaneled ==
    /\ args.kind = "paneled"
    /\ fn = "PaneledEvaluateRadiationPressureForce"
    /\ Len(args.panels) = 2
    /\ \A i \in 1..2 : ~FacesAway(args.panels[i], args.sourceToTargetDirection)
    /\ RLt(RZero, VDot(ret, args.sourceToTargetDirection))

\* C30: for a unit normal n and v with v . n < 0, the mirrored vector
\* r = computeMirrorlikeReflection(v, n) has r . n = -(v . n) > 0 and
\* r . r = v . v, and computeMirrorlikeReflection(r, n) is the zero vector:
\* the function is not its own inverse.
C30_MirrorFlipsNormalComponent ==
    ( /\ args.kind = "law"
      /\ fn = "computeMirrorlikeReflection"
      /\ IsUnit(args.surfaceNormal)
      /\ RLt(VDot(args.incomingDirection, args.surfaceNormal), RZero) ) =>
        /\ VDot(ret, args.surfaceNormal)
             = RNeg(VDot(args.incomingDirection, args.surfaceNormal))
        /\ RLt(RZero, VDot(ret, args.surfaceNormal))
        /\ VDot(ret, ret) = VDot(args.incomingDirection, args.incomingDirection)
        /\ computeMirrorlikeReflection(ret, args.surfaceNormal) = VZero
        /\ computeMirrorlikeReflection(ret, args.surfaceNormal)
             # args.incomingDirection

\* an oblique ray mirrored about a unit normal
C30_Witness ==
    /\ args.kind = "law"
    /\ fn = "computeMirrorlikeReflection"
    /\ IsUnit(args.surfaceNormal)
    /\ RLt(VDot(args.incomingDirection, args.surfaceNormal), RZero)
    /\ RLt(RInt(-1), VDot(args.incomingDirection, args.surfaceNormal))
    /\ ret # VZero
    /\ ret # VNeg(args.incomingDirection)


\* the observer stands exactly in the mirror direction of the incoming
\* direction
ObserverExactlyInMirrorDirection ==
    args.observerDirection = Observer(MirrorDirection, VZero)

\* C27: inside evaluateReflectedFraction the mirror direction is computed
\* only with cIn > 0: a result other than zero implies cIn > 0, there
\* computeMirrorlikeReflection takes its mirroring branch and not the
\* zero-vector one, the divisor of the specular term is strictly positive
\* (no division by zero), and for a unit normal an observer exactly in the
\* mirror direction passes the test cObs > 0 and receives the specular term.
C27_MirrorReachedOnlyFromTheFront ==
    ( /\ args.kind = "fraction"
      /\ fn = "evaluateReflectedFraction" ) =>
        /\ ret # Fraction(RZero, RZero) =>
             /\ RLt(RZero, FractionCosIn)
             /\ RLt(VDot(args.incomingDirection, args.surfaceNormal), RZero)
             /\ computeMirrorlikeReflection(args.incomingDirection,
                                            args.surfaceNormal) = MirrorDirection
        /\ IsFinite(ret.plain)
        /\ ret.plain # RZero =>
             /\ RLt(RZero, FractionCosIn)
             /\ ret.plain = RDiv(args.law.specularReflectivity_, FractionCosIn)
        /\ ( /\ IsUnit(args.surfaceNormal)
             /\ RLt(RZero, FractionCosIn)
             /\ ObserverExactlyInMirrorDirection ) =>
               /\ ~CosObserverIsNonPositive(args.surfaceNormal,
                                            args.observerDirection)
               /\ ret = SpecularPlusDiffuse

\* oblique incidence on a unit normal, observer exactly in the mirror
\* direction, specular term received
C27_Witness ==
    /\ args.kind = "fraction"
    /\ fn = "evaluateReflectedFraction"
    /\ IsUnit(args.surfaceNormal)
    /\ RLt(RZero, FractionCosIn) /\ RLt(FractionCosIn, ROne)
    /\ ObserverExactlyInMirrorDirection
    /\ RLt(RZero, args.law.specularReflectivity_)
    /\ ret.plain # RZero

\* light from behind the surface: zero although the observer is in front
C27_WitnessFromBehind ==
    /\ args.kind = "fraction"
    /\ fn = "evaluateReflectedFraction"
    /\ RLt(FractionCosIn, RZero)
    /\ ~CosObserverIsNonPositive(args.surfaceNormal, args.observerDirection)
    /\ ret = Fraction(RZero, RZero)

\* the panel of the list with its own copy of the reflection law, alone
PanelWithOwnLaw(i) ==
    LET panel == args.panels[i]
        law == panel.reflectionLaw
    IN  << TargetPanel(panel.area, panel.surfaceNormal,
                       SpecularDiffuseMixReflectionLaw(
                           law.absorptivity_, law.specularReflectivity_,
                           law.diffuseReflectivity,
                           law.withInstantaneousLambertianReradiation_)) >>

PanelsShareOneLaw ==
    \A i, j \in 1..Len(args.panels) :
        args.panels[i].reflectionLaw = args.panels[j].reflectionLaw

\* C21: panels that share one reflection law are evaluated independently:
\* the force on the model is the sum of the forces on one-panel models made
\* of each panel with its own copy of the law (same coefficients), so the
\* evaluation of the law for one panel does not change what it returns for
\* another.
C21_SharedLawEvaluatedIndependently ==
    ( /\ args.kind = "paneled"
      /\ fn = "PaneledEvaluateRadiationPressureForce"
      /\ PanelsShareOneLaw ) =>
        ret = VSum([ i \in 1..Len(args.panels) |->
                       PaneledEvaluateRadiationPressureForce(
                           PanelWithOwnLaw(i), args.sourceIrradiance,
                           args.sourceToTargetDirection) ],
                   1..Len(args.panels))

\* two lit panels with different normals share a law
C21_Witness ==
    /\ args.kind = "paneled"
    /\ fn = "PaneledEvaluateRadiationPressureForce"
    /\ Len(args.panels) >= 2
    /\ PanelsShareOneLaw
    /\ args.panels[1].surfaceNormal # args.panels[2].surfaceNormal
    /\ \A i \in 1..2 : ~FacesAway(args.panels[i], args.sourceToTargetDirection)
    /\ ret # VZero

-----------------------------------------------------------------------------
(***************************************************************************)
(* updateMembers of the cannonball target model (specification SpecFn).    *)
(***************************************************************************)

\* the force the model in args returns for the given irradiance and direction
CannonballForceOf(model, sourceIrradiance, sourceToTargetDirection) ==
    CannonballEvaluateRadiationPressureForce(
        model.area, model.coefficient, sourceIrradiance, sourceToTargetDirection)

\* a step that is an updateMembers call on the cannonball model
CannonballUpdated ==
    /\ args.kind = "cannonball"
    /\ trace' # trace

\* C22: updateMembers of the cannonball model does not affect its result:
\* every call, with any time including the sentinel, leaves the area and the
\* coefficient as they are and with them the force for every irradiance and
\* direction, so the force evaluated after any sequence of calls is
\* (irradiance / c) * area * coefficient * direction of the model as
\* constructed, the force evaluated when updateMembers was never called.
C22_CannonballUpdateMembersIsNoOp ==
    /\ [][ CannonballUpdated =>
             /\ args'.area = args.area
             /\ args'.coefficient = args.coefficient
             /\ \A irradiance \in Irradiances, direction \in TargetDirections :
                    CannonballForceOf(args', irradiance, direction)
                      = CannonballForceOf(args, irradiance, direction) ]_vars
    /\ []( ( /\ args.kind = "cannonball"
             /\ fn = "CannonballEvaluateRadiationPressureForce" ) =>
               ret = VScale(RMul(RDiv(args.sourceIrradiance, RInt(speedOfLight)),
                                 RMul(args.area, args.coefficient)),
                            args.sourceToTargetDirection) )

\* a nonzero force evaluated after a call with the sentinel and a call with
\* a time
C22_Witness ==
    /\ args.kind = "cannonball"
    /\ fn = "CannonballEvaluateRadiationPressureForce"
    /\ Len(trace) = 2
    /\ IsNaN(trace[1])
    /\ ~IsNaN(trace[2])
    /\ args.coefficient \notin { RZero, ROne }
    /\ ret # VZero

\* the same force evaluated when updateMembers was never called
C22_WitnessNeverUpdated ==
    /\ args.kind = "cannonball"
    /\ fn = "CannonballEvaluateRadiationPressureForce"
    /\ trace = << >>
    /\ ret # VZero

-----------------------------------------------------------------------------
(***************************************************************************)
(* Specification SpecLife: the acceleration model over successive calls of *)
(* updateMembers, with a radiation pressure that may be negative.          *)
(* trace lists the first HistoryLength calls of updateMembers made on the  *)
(* model, each with its time and whether it recomputed.                    *)
(***************************************************************************)

\* number of calls of updateMembers listed in trace
HistoryLength == 3

LifeRadiationPressures == { RInt(-2), RZero, RInt(2) }

\* the panels other than the first are lit as well
LifeFixedPanelStates ==
    { [ surfaceNormal |-> Vec(3, 0, 4, 5), area |-> RInt(3),
        emmisivitty |-> Rat(1, 4), diffuseReflectionCoefficient |-> Rat(1, 2) ] }

LifePanelStates(i) == IF i = 1 THEN ArticulatedPanelStates ELSE LifeFixedPanelStates

\* source and accelerated body stay where they are
\* source, accelerated body and mass stay as they are
LifeEnvironments ==
    [ sourcePosition : { Vec(0, 0, 4, 1) },
      acceleratedBodyPosition : { Vec(3, 0, 0, 1) },
      radiationPressure : LifeRadiationPressures,
      mass : { RInt(2) },
      panels : { f \in [ 1..NumberOfPanels ->
                             ArticulatedPanelStates \cup LifeFixedPanelStates ] :
                     \A i \in 1..NumberOfPanels : f[i] \in LifePanelStates(i) } ]

LifeInit ==
    /\ env \in LifeEnvironments
    /\ Construct
    /\ FnIdle

LifeUpdateMembers ==
    \E currentTime \in Times :
        /\ updateMembers(currentTime)
        /\ trace' = IF Len(trace) < HistoryLength
                    THEN Append(trace,
                                [ currentTime |-> currentTime,
                                  recomputed |->
                                      ~TimeIsCurrent(currentTime_, currentTime) ])
                    ELSE trace

\* the environment moves on: the radiation pressure or the four providers
\* of one panel return another value from now on
LifeProvidersChange ==
    /\ \/ \E r \in LifeRadiationPressures \ { env.radiationPressure } :
              env' = [ env EXCEPT !.radiationPressure = r ]
       \/ \E i \in 1..NumberOfPanels :
              \E q \in LifePanelStates(i) \ { env.panels[i] } :
                  env' = [ env EXCEPT !.panels[i] = q ]
    /\ lastCall' = [ op |-> "providersChange", currentTime |-> NaN,
                     first |-> FALSE ]
    /\ calls' = NoCalls
    /\ UNCHANGED << currentTime_, currentNormalizedVectorToSource_,
                    currentDistanceToSource_, currentRadiationPressure_,
                    currentMass_, currentAcceleration_,
                    currentPanelAccelerations_, fnVars, trace >>

LifeNext ==
    \/ LifeUpdateMembers
    \/ LifeProvidersChange

SpecLife == LifeInit /\ [][LifeNext]_vars


\* the acceleration that a recompute calculates from what the providers
\* return now
AccelerationFromProviders ==
    IF RLt(RZero, env.radiationPressure)
    THEN VScale(RDiv(env.radiationPressure, env.mass),
                VSum([ i \in 1..NumberOfPanels |->
                         computeSinglePanelNormalizedRadiationPressureForce(
                             VectorToSourceNow,
                             env.panels[i].surfaceNormal, env.panels[i].area,
                             env.panels[i].emmisivitty,
                             env.panels[i].diffuseReflectionCoefficient) ],
                     1..NumberOfPanels))
    ELSE VZero

\* a step that is an updateMembers with a time that is not NaN and differs
\* from the cached time
UpdatedWithAnotherTime ==
    /\ lastCall'.op = "updateMembers"
    /\ ~IsNaN(lastCall'.currentTime)
    /\ lastCall'.currentTime # currentTime_

\* the first three calls made on the model were updateMembers( t1 ),
\* updateMembers( t2 ), updateMembers( t1 ) with t1 # t2, neither NaN
ThreeCallsBackAndForth ==
    /\ Len(trace) = HistoryLength
    /\ \A k \in 1..HistoryLength : ~IsNaN(trace[k].currentTime)
    /\ trace[1].currentTime = trace[3].currentTime
    /\ trace[1].currentTime # trace[2].currentTime

\* C24: the cache holds one entry and is keyed by equality of the times
\* only: every updateMembers( t ) with t not NaN and t different from the
\* cached time, be it later or earlier, samples the providers anew, stores
\* t and leaves the acceleration calculated from what the providers return
\* at that call; of the calls updateMembers( t1 ), updateMembers( t2 ),
\* updateMembers( t1 ) with t1 # t2 on a new model all three recompute.
C24_CacheKeyedByEqualityOnly ==
    /\ [][ UpdatedWithAnotherTime =>
             /\ calls'.sourcePosition = 1
             /\ calls'.acceleratedBodyPosition = 1
             /\ calls'.radiationPressure = 1
             /\ calls'.mass >= 1
             /\ currentTime_' = lastCall'.currentTime
             /\ currentRadiationPressure_' = env.radiationPressure
             /\ currentAcceleration_' = AccelerationFromProviders ]_vars
    /\ []( ThreeCallsBackAndForth =>
             \A k \in 1..HistoryLength : trace[k].recomputed )

\* the third of the three calls, back at the earlier time, has recomputed
\* an acceleration other than the one of the first call
C24_Witness ==
    /\ ThreeCallsBackAndForth
    /\ RLt(trace[3].currentTime, trace[2].currentTime)
    /\ Recomputed
    /\ lastCall.currentTime = trace[3].currentTime
    /\ currentTime_ = trace[3].currentTime
    /\ currentAcceleration_ = AccelerationFromProviders
    /\ currentAcceleration_ # VZero

\* C25: after a recompute that sampled a radiation pressure which is not
\* strictly positive (zero or negative), getAcceleration( ) is exactly the
\* zero vector, no provider of a panel (normal, area, emissivity, diffuse
\* coefficient) was invoked, and the cached time is the requested time.
C25_NoForceWithoutPositivePressure ==
    ( /\ Recomputed
      /\ ~RLt(RZero, env.radiationPressure) ) =>
        /\ currentRadiationPressure_ = env.radiationPressure
        /\ getAcceleration = VZero
        /\ \A i \in 1..NumberOfPanels :
              /\ calls.panelSurfaceNormal[i] = 0
              /\ calls.panelArea[i] = 0
              /\ calls.panelEmmisivitty[i] = 0
              /\ calls.panelDiffuseReflectionCoefficient[i] = 0
        /\ currentTime_ = lastCall.currentTime

\* a recompute at a time under a negative radiation pressure, after one
\* under a positive pressure had left panel accelerations
C25_Witness ==
    /\ Recomputed
    /\ RLt(env.radiationPressure, RZero)
    /\ ~IsNaN(lastCall.currentTime)
    /\ currentTime_ = lastCall.currentTime
    /\ getAcceleration = VZero
    /\ Len(trace) >= 2
    /\ \E i \in 1..NumberOfPanels :
           getCurrentPanelAcceleration(i) \notin UninitialisedVectors

\* a recompute under radiation pressure zero
C25_WitnessZeroPressure ==
    /\ Recomputed
    /\ env.radiationPressure = RZero
    /\ getAcceleration = VZero
    /\ currentTime_ = lastCall.currentTime

-----------------------------------------------------------------------------
(***************************************************************************)
(* Specification SpecAbort: updateMembers ended part-way by a provider     *)
(* that throws.  The providers are boost::function objects supplied by the *)
(* caller and updateMembers contains no try block, so an exception thrown  *)
(* by a provider leaves updateMembers at the statement that invoked it,    *)
(* with the assignments made before that statement in place.               *)
(* trace holds the acceleration calculated by the last recompute that ran  *)
(* to its end, and nothing before the first such recompute.                *)
(***************************************************************************)

\* the statements of updateMembers at which a provider can throw: 0 the
\* positions, 1 radiationPressureFunction_, 2 the first massFunction_,
\* 2 + i the statement of the loop for panel i
FailingStatements(radiationPressure) ==
    0..(IF RLt(RZero, radiationPressure) THEN 2 + NumberOfPanels ELSE 2)

\* invocations that returned before the statement that threw
CallsBeforeFailure(failing) ==
    [ sourcePosition |-> IF failing >= 1 THEN 1 ELSE 0,
      acceleratedBodyPosition |-> IF failing >= 1 THEN 1 ELSE 0,
      radiationPressure |-> IF failing >= 2 THEN 1 ELSE 0,
      mass |-> IF failing >= 3 THEN failing - 2 ELSE 0,
      panelSurfaceNormal |->
          [ i \in 1..NumberOfPanels |-> IF failing > 2 + i THEN 1 ELSE 0 ],
      panelArea |->
          [ i \in 1..NumberOfPanels |-> IF failing > 2 + i THEN 1 ELSE 0 ],
      panelEmmisivitty |->
          [ i \in 1..NumberOfPanels |-> IF failing > 2 + i THEN 1 ELSE 0 ],
      panelDiffuseReflectionCoefficient |->
          [ i \in 1..NumberOfPanels |-> IF failing > 2 + i THEN 1 ELSE 0 ] ]

\* updateMembers( currentTime ) left by an exception that a provider throws
\* in statement failing: the members assigned before that statement keep
\* their new values, the assignment to currentTime_ is not reached
updateMembersAborted(currentTime, failing) ==
    LET vectorToSource == VSub(env.sourcePosition, env.acceleratedBodyPosition)
        radiationPressure == env.radiationPressure
    IN  /\ ~TimeIsCurrent(currentTime_, currentTime)
        /\ failing \in FailingStatements(radiationPressure)
        /\ lastCall' = [ op |-> "updateMembersAborted",
                         currentTime |-> currentTime,
                         first |-> lastCall.op = "construct" ]
        /\ calls' = CallsBeforeFailure(failing)
        /\ IF failing >= 1
           THEN /\ currentDistanceToSource_' = VNorm(vectorToSource)
                /\ currentNormalizedVectorToSource_' = VNormalized(vectorToSource)
           ELSE UNCHANGED << currentDistanceToSource_,
                             currentNormalizedVectorToSource_ >>
        /\ currentRadiationPressure_' =
               IF failing >= 2 THEN radiationPressure ELSE currentRadiationPressure_
        /\ IF failing >= 3
           THEN LET panelAccelerations ==
                        [ i \in 1..NumberOfPanels |->
                            IF failing > 2 + i
                            THEN PanelAccelerationAt(i, VNormalized(vectorToSource),
                                                     radiationPressure)
                            ELSE currentPanelAccelerations_[i] ]
                IN  /\ currentMass_' = env.mass
                    /\ currentPanelAccelerations_' = panelAccelerations
                    /\ currentAcceleration_' =
                           AccelerationUpTo(panelAccelerations, failing - 3)
           ELSE UNCHANGED << currentMass_, currentPanelAccelerations_,
                             currentAcceleration_ >>
        /\ UNCHANGED << currentTime_, env, fnVars >>

AbortInit ==
    /\ env \in LifeEnvironments
    /\ Construct
    /\ FnIdle

\* an updateMembers( currentTime ) that runs to its end
AbortUpdateMembers ==
    \E currentTime \in Times :
        /\ updateMembers(currentTime)
        /\ trace' = IF ~TimeIsCurrent(currentTime_, currentTime)
                    THEN << currentAcceleration_' >>
                    ELSE trace

UpdateMembersAborted ==
    /\ \E currentTime \in Times, failing \in 0..(2 + NumberOfPanels) :
           updateMembersAborted(currentTime, failing)
    /\ UNCHANGED trace

AbortNext ==
    \/ AbortUpdateMembers
    \/ UpdateMembersAborted
    \/ LifeProvidersChange

SpecAbort == AbortInit /\ [][AbortNext]_vars

\* C23, as stated: in every reachable state in which the cached time is a
\* time t (not the sentinel), the cached acceleration is the one that the
\* recompute which stored t calculated completely from the provider values
\* it sampled; this holds after a recompute ended part-way by a failing
\* provider as well: an aborted updateMembers( t2 ) leaves no zeroed or
\* partially accumulated acceleration with the earlier cached time t1, so
\* that a following updateMembers( t1 ) returns no wrong value as cached.
C23_CachedAccelerationIsOfCompletedRecompute ==
    ~IsNaN(currentTime_) => trace = << currentAcceleration_ >>

\* an updateMembers( t2 ) aborted in the loop over the panels has left a
\* zeroed or partial sum with the cached time t1, and updateMembers( t1 )
\* has then taken it as cached
C23_StaleAfterAbort ==
    /\ ~IsNaN(currentTime_)
    /\ lastCall.op = "updateMembers"
    /\ lastCall.currentTime = currentTime_
    /\ calls = NoCalls
    /\ trace # << currentAcceleration_ >>

-----------------------------------------------------------------------------
(***************************************************************************)
(* Specification SpecIndex: the four lists of panel providers handed to    *)
(* the constructor, each of its own length.  args holds the lists (for     *)
(* each provider the value it returns), trace the accesses by index that   *)
(* the operation performed last made: the list, the index and the size of  *)
(* the list.  Panel i of the model is index i - 1 of the code.             *)
(*                                                                         *)
(* operator[] of std::vector beyond the size of the vector is undefined    *)
(* behaviour: the outcomes modelled are that the program is terminated at  *)
(* the access, and that the access yields some value and the operation     *)
(* goes on.                                                                *)
(***************************************************************************)

\* largest length of a list of panel providers
MaxListLength == 2

\* what the providers at position i of the lists return
IndexPanel(i) ==
    IF i = 1
    THEN [ surfaceNormal |-> Vec(-1, 0, 0, 1), area |-> ROne,
           emmisivitty |-> Rat(1, 2), diffuseReflectionCoefficient |-> RZero ]
    ELSE [ surfaceNormal |-> Vec(3, 0, 4, 5), area |-> RInt(3),
           emmisivitty |-> Rat(1, 4), diffuseReflectionCoefficient |-> Rat(1, 2) ]

ProviderLists(field) ==
    { [ i \in 1..n |-> IndexPanel(i)[field] ] : n \in 0..MaxListLength }

\* the arguments of the constructor that are lists; it takes them as they
\* are, whatever their lengths
IndexArgs ==
    [ panelEmmisivittyFunctions : ProviderLists("emmisivitty"),
      panelDiffuseReflectionCoefficientFunctions :
          ProviderLists("diffuseReflectionCoefficient"),
      panelSurfaceNormalFunctions : ProviderLists("surfaceNormal"),
      panelAreaFunctions : ProviderLists("area") ]

\* the other providers return the same values throughout, the radiation
\* pressure is positive
IndexEnvironments ==
    [ sourcePosition : { Vec(0, 0, 4, 1) },
      acceleratedBodyPosition : { Vec(3, 0, 0, 1) },
      radiationPressure : { RInt(2) },
      mass : { RInt(2) } ]

\* what uninitialised members and reads beyond a list hold
SomeValues ==
    { [ double |-> d, vector |-> v ] :
          d \in UninitialisedDoubles, v \in UninitialisedVectors }
        \ { [ double |-> RZero, vector |-> Vec(7, 7, 7, 1) ],
            [ double |-> RInt(7), vector |-> VZero ] }

\* numberOfPanels_ = panelEmmisivittyFunctions.size( )
numberOfPanels_ == Len(args.panelEmmisivittyFunctions)

\* the constructor
IndexInit ==
    /\ args \in IndexArgs
    /\ env \in IndexEnvironments
    /\ currentTime_ = InitialCurrentTime
    /\ \E some \in SomeValues :
          /\ currentDistanceToSource_ = some.double
          /\ currentRadiationPressure_ = some.double
          /\ currentMass_ = some.double
          /\ currentNormalizedVectorToSource_ = some.vector
          /\ currentAcceleration_ = some.vector
          /\ currentPanelAccelerations_ =
                 [ i \in 1..Len(args.panelEmmisivittyFunctions) |-> some.vector ]
    /\ lastCall = [ op |-> "construct", currentTime |-> NaN, first |-> FALSE ]
    /\ calls = NoCalls
    /\ trace = { }
    /\ fn = "idle"
    /\ ret = "idle"

Access(list, index, size) == [ list |-> list, index |-> index, size |-> size ]

\* the accesses of one pass of the loop of updateMembers
AccessesOfPanel(i) ==
    { Access("panelSurfaceNormalFunctions_", i,
             Len(args.panelSurfaceNormalFunctions)),
      Access("panelAreaFunctions_", i, Len(args.panelAreaFunctions)),
      Access("panelEmmisivittyFunctions_", i,
             Len(args.panelEmmisivittyFunctions)),
      Access("panelDiffuseReflectionCoefficientFunctions_", i,
             Len(args.panelDiffuseReflectionCoefficientFunctions)),
      Access("currentPanelAccelerations_", i, Len(currentPanelAccelerations_)) }

WithinBounds(access) == 1 <= access.index /\ access.index <= access.size

\* list[ i ]( ): the value of the provider, or some value when i is beyond
\* the list
ProviderValue(list, i, beyond) == IF i <= Len(list) THEN list[i] ELSE beyond

\* the pass of the loop for panel i
IndexedPanelAcceleration(i, normalizedVectorToSource, radiationPressure, someDouble, someVector) ==
    VScale(RDiv(radiationPressure, env.mass),
           computeSinglePanelNormalizedRadiationPressureForce(
               normalizedVectorToSource,
               ProviderValue(args.panelSurfaceNormalFunctions, i, someVector),
               ProviderValue(args.panelAreaFunctions, i, someDouble),
               ProviderValue(args.panelEmmisivittyFunctions, i, someDouble),
               ProviderValue(args.panelDiffuseReflectionCoefficientFunctions, i,
                             someDouble)))

\* the panels whose pass of the loop reads beyond a list
PanelsBeyondAList ==
    { i \in 1..numberOfPanels_ : \E a \in AccessesOfPanel(i) : ~WithinBounds(a) }

\* updateMembers( currentTime ); someDouble and someVector are what reads
\* beyond a list yield, goesOn tells whether the program survives them
indexedUpdateMembers(currentTime, someDouble, someVector, goesOn) ==
    LET vectorToSource == VSub(env.sourcePosition, env.acceleratedBodyPosition)
        radiationPressure == env.radiationPressure
        entersLoop == RLt(RZero, radiationPressure)
        terminated == entersLoop /\ PanelsBeyondAList # { } /\ ~goesOn
        lastPanel ==
            IF ~entersLoop THEN 0
            ELSE IF terminated
                 THEN CHOOSE i \in PanelsBeyondAList :
                          \A j \in PanelsBeyondAList : i <= j
                 ELSE numberOfPanels_
        panelAccelerations ==
            [ i \in 1..numberOfPanels_ |->
                IF i <= lastPanel /\ ~(terminated /\ i = lastPanel)
                THEN IndexedPanelAcceleration(i, VNormalized(vectorToSource),
                                              radiationPressure,
                                              someDouble, someVector)
                ELSE currentPanelAccelerations_[i] ]
    IN  IF TimeIsCurrent(currentTime_, currentTime)
        THEN /\ lastCall' = [ op |-> "updateMembers",
                              currentTime |-> currentTime,
                              first |-> lastCall.op = "construct" ]
             /\ trace' = { }
             /\ UNCHANGED << currentTime_, currentNormalizedVectorToSource_,
                             currentDistanceToSource_, currentRadiationPressure_,
                             currentMass_, currentAcceleration_,
                             currentPanelAccelerations_ >>
        ELSE /\ lastCall' = [ op |-> IF terminated THEN "terminated"
                                     ELSE "updateMembers",
                              currentTime |-> currentTime,
                              first |-> lastCall.op = "construct" ]
             /\ trace' = UNION { AccessesOfPanel(i) : i \in 1..lastPanel }
             /\ currentDistanceToSource_' = VNorm(vectorToSource)
             /\ currentNormalizedVectorToSource_' = VNormalized(vectorToSource)
             /\ currentRadiationPressure_' = radiationPressure
             /\ currentMass_' = env.mass
             /\ currentPanelAccelerations_' = panelAccelerations
             /\ currentAcceleration_' =
                    AccelerationUpTo(panelAccelerations,
                                     IF terminated THEN lastPanel - 1
                                     ELSE lastPanel)
             /\ currentTime_' = IF terminated THEN currentTime_ ELSE currentTime

IndexUpdateMembers ==
    /\ lastCall.op # "terminated"
    /\ \E currentTime \in Times, some \in SomeValues, goesOn \in BOOLEAN :
           indexedUpdateMembers(currentTime, some.double, some.vector, goesOn)
    /\ UNCHANGED << env, args, fn, ret, calls >>

\* getCurrentPanelAcceleration( panelIndex ) and
\* getCurrentPanelSurfaceNormalInPropagationFrame( panelIndex ) with
\* 0 <= panelIndex < numberOfPanels_
IndexGetters ==
    /\ lastCall.op # "terminated"
    /\ \E i \in 1..numberOfPanels_ :
          \/ /\ fn' = "getCurrentPanelAcceleration"
             /\ ret' = currentPanelAccelerations_[i]
             /\ trace' = { Access("currentPanelAccelerations_", i,
                                  Len(currentPanelAccelerations_)) }
             /\ lastCall' = [ op |-> "getCurrentPanelAcceleration",
                              currentTime |-> NaN, first |-> FALSE ]
          \/ /\ fn' = "getCurrentPanelSurfaceNormalInPropagationFrame"
             /\ trace' = { Access("panelSurfaceNormalFunctions_", i,
                                  Len(args.panelSurfaceNormalFunctions)) }
             /\ \E some \in SomeValues, goesOn \in BOOLEAN :
                   /\ ret' = ProviderValue(args.panelSurfaceNormalFunctions, i,
                                           some.vector)
                   /\ lastCall' =
                        [ op |-> IF i > Len(args.panelSurfaceNormalFunctions)
                                    /\ ~goesOn
                                 THEN "terminated"
                                 ELSE "getCurrentPanelSurfaceNormalInPropagationFrame",
                          currentTime |-> NaN, first |-> FALSE ]
    /\ UNCHANGED << currentTime_, currentNormalizedVectorToSource_,
                    currentDistanceToSource_, currentRadiationPressure_,
                    currentMass_, currentAcceleration_,
                    currentPanelAccelerations_, env, args, calls >>

IndexNext ==
    \/ IndexUpdateMembers
    \/ IndexGetters

SpecIndex == IndexInit /\ [][IndexNext]_vars

\* C26, as stated: for every instance that the constructor accepts, the
\* number of panels equals the length of the store of panel accelerations,
\* and every recompute and every getter called with
\* 0 <= i < numberOfPanels indexes the lists of emissivity, diffuse
\* coefficient, surface normal and area providers and the store of panel
\* accelerations within their bounds only.
C26_IndexesWithinBounds ==
    /\ numberOfPanels_ = Len(currentPanelAccelerations_)
    /\ \A access \in trace : WithinBounds(access)

\* the lists have the length of the emissivity list: all accesses are
\* within bounds
C26_EqualLengthsWithinBounds ==
    ( /\ Len(args.panelSurfaceNormalFunctions) = numberOfPanels_
      /\ Len(args.panelAreaFunctions) = numberOfPanels_
      /\ Len(args.panelDiffuseReflectionCoefficientFunctions) = numberOfPanels_ ) =>
        C26_IndexesWithinBounds

====
